---- MODULE Spec2Model ----
(***************************************************************************)
(* Chunked-upload transfer protocol of nenoflix-uploader.                  *)
(*                                                                         *)
(* Server side (apps/backend/src): the in-memory session store             *)
(* (upload-manager.ts), the per-path write queue and the chunk writer      *)
(* (chunk-handler.ts) and the routes /upload/init, /upload/chunk,          *)
(* /upload/complete and /upload/status (index.ts).                         *)
(* Client side (apps/frontend/lib/upload-chunker.ts): the uploadAll loop   *)
(* of UploadChunker.                                                       *)
(*                                                                         *)
(* A step of the model is one run-to-completion turn of the JavaScript     *)
(* event loop: the code between two I/O suspension points, together with   *)
(* the promise continuations (microtasks) it triggers.                     *)
(*                                                                         *)
(* The staging file of a session is modelled by its existence, its length  *)
(* in bytes and, for every chunk slot (offset index * chunkSize), the      *)
(* number of bytes of that chunk's payload stored there.  Every payload    *)
(* sent for an index is a prefix of the source file's chunk of that index  *)
(* (a full or a truncated body), so the longest prefix written so far      *)
(* describes the slot's content.                                           *)
(***************************************************************************)
EXTENDS Integers, Sequences, FiniteSets, TLC

(***************************************************************************)
(* Bounds of the model.                                                    *)
(***************************************************************************)
MaxSessions == 2
MaxReqs == 3
MaxTicks == 1
MaxAdvances == 3
MaxShort == 1
NumClientChunks == 2
MaxCancels == 1
MaxPolls == 1
MaxTimeSteps == 2
MaxFailures == 2
MaxReports == 4

(***************************************************************************)
(* Program constants.                                                      *)
(***************************************************************************)
MB == 1024 * 1024
MAX_CHUNK_SIZE == 200 * MB
SIZE_TOLERANCE == 1024
SESSION_TTL == 48 * 60 * 60 * 1000
ACTIVE_SESSION_THRESHOLD == 5 * 60 * 1000
CREATION_GRACE == 60 * 60 * 1000
MAX_RETRIES == 5
MAX_PARALLEL_CHUNKS == 5
MIN_TIMEOUT == 30 * 1000
MAX_TIMEOUT == 10 * 60 * 1000
STUCK_CHUNK_THRESHOLD == 2 * 60 * 1000
MIN_PARALLEL_CHUNKS == 1

(***************************************************************************)
(* Inputs the requests are drawn from.                                     *)
(***************************************************************************)
Ids == 1 .. MaxSessions
ReqIds == 1 .. MaxReqs
TotalSizeInputs == {-1, 0, 5000, 25 * MB}
ChunkSizeInputs == {0}
ShortBy == SIZE_TOLERANCE + 1
TickStep == SESSION_TTL + 1

Max(a, b) == IF a >= b THEN a ELSE b
Min(a, b) == IF a <= b THEN a ELSE b
Abs(a) == IF a >= 0 THEN a ELSE 0 - a
CeilDiv(a, b) == (a + b - 1) \div b

VARIABLES
  now,              \* Date.now() of the server
  ticks,            \* number of clock advances so far
  sessions,         \* UploadManager.sessions: uploadId -> UploadSession
  created,          \* uploadIds handed out by /upload/init so far
  files,            \* staging file at each session's tempFilePath
  dest,             \* file at each session's target path
  fileWriteQueues,  \* chunk-handler's Map: path -> tail promise (its request)
  reqs,             \* the /upload/chunk and /upload/complete requests
  nreq,             \* number of requests received so far
  uploadId,         \* UploadChunker.uploadId is set
  chunkStatuses,    \* UploadChunker.chunkStatuses: index -> status, retries
  currentParallelism,
  pcU,              \* position of uploadAll
  inflight,         \* chunk indices whose uploadChunk call awaits its request
  uploadError,      \* the error uploadAll rejected with
  maxRetriesThrown, \* a dispatch callback threw the max-retries error
  lastRetryTime,    \* per chunk: ChunkStatus.lastRetryTime, 0 when undefined
  chunkUploadStartTimes, \* per chunk: start of its attempt, 0 when absent
  timeoutAt,        \* per chunk: when the setTimeout of its attempt fires, 0 when none
  xhrs,             \* the /upload/chunk requests in flight: index and attempt
  serverHas,        \* the chunk indices the server has recorded for this upload
  cancels,          \* number of cancel() calls so far
  polls,            \* the status answers handled so far, in order
  timers,           \* the progress and status intervals are running
  clock,            \* Date.now() of the browser
  cticks,           \* number of advances of the browser's clock so far
  localStorage,     \* the browser's localStorage: key -> text
  calc,             \* the last call of a function under study: arguments, value
  progress          \* UploadChunker's progress fields and its last report

serverVars == <<now, ticks, sessions, created, files, dest, fileWriteQueues, reqs, nreq>>
attemptVars == <<lastRetryTime, chunkUploadStartTimes, timeoutAt>>
chunkerVars == <<uploadId, chunkStatuses, currentParallelism, pcU, inflight, uploadError,
                 maxRetriesThrown, attemptVars, xhrs, serverHas, cancels, polls, timers>>
pageVars == <<clock, cticks, localStorage, calc, progress>>
clientVars == <<chunkerVars, pageVars>>
vars == <<serverVars, clientVars>>

(***************************************************************************)
(* ChunkPlanner (server).  Thresholds are whole megabytes, so comparing    *)
(* floor(totalSize / MB) with the threshold in MB is the same comparison.  *)
(***************************************************************************)
PlannerTargetChunks(totalSize) ==
  IF totalSize \div MB < 500 THEN 20
  ELSE IF totalSize \div MB < 5 * 1024 THEN 50 ELSE 100

PlannerMinChunkSize(totalSize) ==
  IF totalSize \div MB < 500 THEN 10 * MB ELSE 50 * MB

\* faulty variant: the ideal size is rounded up to a whole megabyte
calculateOptimalChunkSize_RoundsUp(totalSize) ==
  LET idealChunkSize == totalSize \div PlannerTargetChunks(totalSize)
      minChunkSize == PlannerMinChunkSize(totalSize)
  IN  IF idealChunkSize < minChunkSize THEN minChunkSize
      ELSE IF idealChunkSize > MAX_CHUNK_SIZE THEN MAX_CHUNK_SIZE
      ELSE ((idealChunkSize + MB - 1) \div MB) * MB

calculateOptimalChunkSize(totalSize) ==
  LET idealChunkSize == totalSize \div PlannerTargetChunks(totalSize)
      minChunkSize == PlannerMinChunkSize(totalSize)
  IN  IF idealChunkSize < minChunkSize THEN minChunkSize
      ELSE IF idealChunkSize > MAX_CHUNK_SIZE THEN MAX_CHUNK_SIZE
      ELSE (idealChunkSize \div MB) * MB

(***************************************************************************)
(* The planner on sizes beyond 2^31 bytes.  A size is q kilobytes and r    *)
(* bytes (0 <= r < 1024).  The tier thresholds, the minima and the maximum *)
(* are whole kilobytes, and floor(floor(x / 1024) / n) = floor(x / 1024n), *)
(* so the planner's value for q * 1024 + r bytes is 1024 times the value   *)
(* computed below from q.                                                  *)
(***************************************************************************)
KB == 1024
PlannerMBs == {0, 1, 25, 199, 200, 201, 330, 499, 500, 501, 2499, 2500, 2501,
               5119, 5120, 5121, 7000, 19999, 20000, 20001, 30000}
PlannerInputs ==
  {<<q, r>> \in {m * KB + d : m \in PlannerMBs, d \in {-1, 0, 1}} \X {0, 1, 1023} :
     q >= 0 /\ (q > 0 \/ r > 0)}

\* faulty variant: the tier minimum is not applied
calculateOptimalChunkSizeKB_NoMinimum(totalKB) ==
  LET targetChunks == IF totalKB < 500 * KB THEN 20
                      ELSE IF totalKB < 5 * KB * KB THEN 50 ELSE 100
      idealChunkSize == totalKB \div targetChunks
  IN  IF idealChunkSize > 200 * KB THEN 200 * KB
      ELSE (idealChunkSize \div KB) * KB

calculateOptimalChunkSizeKB(totalKB) ==
  LET targetChunks == IF totalKB < 500 * KB THEN 20
                      ELSE IF totalKB < 5 * KB * KB THEN 50 ELSE 100
      minChunkSize == IF totalKB < 500 * KB THEN 10 * KB ELSE 50 * KB
      idealChunkSize == totalKB \div targetChunks
  IN  IF idealChunkSize < minChunkSize THEN minChunkSize
      ELSE IF idealChunkSize > 200 * KB THEN 200 * KB
      ELSE (idealChunkSize \div KB) * KB

(***************************************************************************)
(* SessionStore (upload-manager.ts).                                       *)
(***************************************************************************)
createSession(totalSize, chunkSize, t) ==
  [ totalSize |-> totalSize,
    totalChunks |-> CeilDiv(totalSize, chunkSize),
    chunkSize |-> chunkSize,
    receivedChunks |-> {},
    createdAt |-> t,
    lastActivity |-> t ]

\* faulty variant: the lookup leaves lastActivity alone
getSession_NoTouch(store, id, t) == store

\* getSession: the store after the lookup (lastActivity refreshed)
getSession(store, id, t) ==
  IF id \in DOMAIN store
    THEN [store EXCEPT ![id].lastActivity = t]
    ELSE store

\* faulty variant: the index is not compared with totalChunks
markChunkReceived_NoRangeCheck(store, id, chunkIndex, t) ==
  IF id \notin DOMAIN store THEN store
  ELSE [store EXCEPT ![id].receivedChunks = @ \cup {chunkIndex},
                     ![id].lastActivity = t]

\* faulty variant: the received set is replaced by the index
markChunkReceived_Replaces(store, id, chunkIndex, t) ==
  IF id \notin DOMAIN store THEN store
  ELSE IF chunkIndex < 0 \/ chunkIndex >= store[id].totalChunks
    THEN [store EXCEPT ![id].lastActivity = t]
    ELSE [store EXCEPT ![id].receivedChunks = {chunkIndex},
                       ![id].lastActivity = t]

\* faulty variant: lastActivity is not touched
markChunkReceived_NoTouch(store, id, chunkIndex, t) ==
  IF id \notin DOMAIN store THEN store
  ELSE IF chunkIndex < 0 \/ chunkIndex >= store[id].totalChunks
    THEN store
    ELSE [store EXCEPT ![id].receivedChunks = @ \cup {chunkIndex}]

\* markChunkReceived: the store after the call
markChunkReceived(store, id, chunkIndex, t) ==
  IF id \notin DOMAIN store THEN store
  ELSE IF chunkIndex < 0 \/ chunkIndex >= store[id].totalChunks
    THEN getSession(store, id, t)
    ELSE [store EXCEPT ![id].receivedChunks = @ \cup {chunkIndex},
                       ![id].lastActivity = t]

\* markChunkReceived: the value returned
markChunkReceivedResult(store, id, chunkIndex) ==
  /\ id \in DOMAIN store
  /\ ~(chunkIndex < 0 \/ chunkIndex >= store[id].totalChunks)

\* the accessors of the store, and the store after a call of one of them:
\* getReceivedChunks, isComplete and getSessionStatus start with getSession
StoreAccessors ==
  {"getSession", "markChunkReceived", "getReceivedChunks", "isComplete", "getSessionStatus"}

StoreAfter(op, store, id, chunkIndex, t) ==
  IF op = "markChunkReceived"
    THEN markChunkReceived(store, id, chunkIndex, t)
    ELSE getSession(store, id, t)

\* faulty variant: one chunk short still counts as complete
isComplete_OneShort(store, id) ==
  IF id \notin DOMAIN store THEN FALSE
  ELSE Cardinality(store[id].receivedChunks) >= store[id].totalChunks - 1

isComplete(store, id) ==
  IF id \notin DOMAIN store THEN FALSE
  ELSE Cardinality(store[id].receivedChunks) = store[id].totalChunks

RECURSIVE MissingFrom(_, _, _)
MissingFrom(received, i, totalChunks) ==
  IF i >= totalChunks THEN <<>>
  ELSE IF i \in received THEN MissingFrom(received, i + 1, totalChunks)
  ELSE <<i>> \o MissingFrom(received, i + 1, totalChunks)

\* faulty variant: the scan for absent indices starts at 1
missingChunks_OffByOne(s) == MissingFrom(s.receivedChunks, 1, s.totalChunks)

\* the loop of getSessionStatus that collects the missing indices
missingChunks(s) == MissingFrom(s.receivedChunks, 0, s.totalChunks)

\* faulty variant: uploadedBytes is not capped at totalSize
getSessionStatus_NoCap(store, id) ==
  LET s == store[id]
      n == Cardinality(s.receivedChunks)
  IN  [ totalSize |-> s.totalSize,
        totalChunks |-> s.totalChunks,
        receivedChunks |-> n,
        missingChunks |-> missingChunks(s),
        uploadedBytes |-> n * s.chunkSize,
        isComplete |-> isComplete(store, id) ]

getSessionStatus(store, id) ==
  LET s == store[id]
      n == Cardinality(s.receivedChunks)
  IN  [ totalSize |-> s.totalSize,
        totalChunks |-> s.totalChunks,
        receivedChunks |-> n,
        missingChunks |-> missingChunks(s),
        uploadedBytes |-> Min(n * s.chunkSize, s.totalSize),
        isComplete |-> isComplete(store, id) ]

(***************************************************************************)
(* Files.                                                                  *)
(***************************************************************************)
\* chunk slots of a staging file: the indices of the largest session and the
\* first index beyond them
MaxIdx == CeilDiv(25 * MB, 10 * MB)
Slots == 0 .. MaxIdx
NoFile == [exists |-> FALSE, size |-> 0, slots |-> [i \in Slots |-> 0]]
EmptyFile == [exists |-> TRUE, size |-> 0, slots |-> [i \in Slots |-> 0]]

\* bytes [offset, offset + len) of the file are overwritten by the payload
WriteAt(f, chunkIndex, offset, len) ==
  IF len = 0 THEN f
  ELSE [f EXCEPT !.size = Max(@, offset + len),
                 !.slots[chunkIndex] = Max(@, len)]

(***************************************************************************)
(* Requests.                                                               *)
(***************************************************************************)
NoReq ==
  [ kind |-> "none", id |-> 0, chunkIndex |-> 0, sent |-> 0, len |-> 0, pc |-> "none",
    offset |-> 0, expected |-> 0, prev |-> 0, ord |-> 0, promise |-> "none",
    ran |-> FALSE, success |-> FALSE, error |-> "", missing |-> <<>>,
    statSize |-> 0, fileName |-> <<>>, originalFileName |-> <<>>, totalSize |-> 0,
    chunkSize |-> 0, answer |-> [chunkSize |-> 0, totalChunks |-> 0] ]

NoCalc == [fn |-> "none", arg |-> <<>>, done |-> FALSE, out |-> <<>>]

Null == [null |-> TRUE]

\* the progress fields of a new UploadChunker (upload-chunker.ts 126-136);
\* reports counts the progress objects handed out, timeRemaining is that of
\* the last one
NoProgress ==
  [ startTime |-> 0, lastProgressTime |-> 0, lastProgressBytes |-> 0,
    lastUploadSpeed |-> 0, lastParallelismAdjust |-> 0,
    initialTimeRemaining |-> Null, reports |-> 0, timeRemaining |-> Null ]

\* the state after construction, but for the pure call to evaluate
InitBase ==
  /\ now = 0
  /\ ticks = 0
  /\ sessions = <<>>
  /\ created = {}
  /\ files = [p \in Ids |-> NoFile]
  /\ dest = [p \in Ids |-> NoFile]
  /\ fileWriteQueues = <<>>
  /\ reqs = [r \in ReqIds |-> NoReq]
  /\ nreq = 0
  /\ uploadId = FALSE
  /\ chunkStatuses = [c \in 0 .. NumClientChunks - 1 |-> [status |-> "pending", retries |-> 0]]
  /\ currentParallelism = MIN_PARALLEL_CHUNKS
  /\ pcU = "idle"
  /\ inflight = {}
  /\ uploadError = ""
  /\ maxRetriesThrown = FALSE
  /\ lastRetryTime = [c \in 0 .. NumClientChunks - 1 |-> 0]
  /\ chunkUploadStartTimes = [c \in 0 .. NumClientChunks - 1 |-> 0]
  /\ timeoutAt = [c \in 0 .. NumClientChunks - 1 |-> 0]
  /\ xhrs = {}
  /\ serverHas = {}
  /\ cancels = 0
  /\ polls = <<>>
  /\ timers = FALSE
  /\ clock = 1
  /\ cticks = 0
  /\ localStorage = <<>>
  /\ progress = NoProgress

Init == InitBase /\ calc = NoCalc


(***************************************************************************)
(* POST /upload/init.  randomUUID never repeats: the new uploadId is the   *)
(* first identifier not handed out yet.                                    *)
(***************************************************************************)
FreshId == CHOOSE id \in Ids \ created : \A other \in Ids \ created : id <= other

\* file names are sequences of characters; the empty one is a missing field
Name_a_mkv == <<"a", ".", "m", "k", "v">>
Name_a_MKV == <<"a", ".", "M", "K", "V">>
Name_a_mkv_exe == <<"a", ".", "m", "k", "v", ".", "e", "x", "e">>
Name_mkv == <<"m", "k", "v">>
Name_b_srt == <<"b", ".", "s", "r", "t">>
Name_b_exe == <<"b", ".", "e", "x", "e">>
FileNameInputs == {<<>>, Name_a_mkv, Name_a_MKV, Name_a_mkv_exe, Name_mkv}
OriginalFileNameInputs == {<<>>, Name_b_srt, Name_b_exe}

ALLOWED_EXTENSIONS ==
  {<<".", "m", "k", "v">>, <<".", "m", "p", "4">>, <<".", "s", "r", "t">>}

\* String.prototype.toLowerCase on the characters of the inputs
LowerChar(c) ==
  CASE c = "M" -> "m"
    [] c = "K" -> "k"
    [] c = "V" -> "v"
    [] OTHER -> c
toLowerCase(name) == [i \in 1 .. Len(name) |-> LowerChar(name[i])]

\* path.extname of a name without directory part: from the last dot to the
\* end, empty when there is no dot or the only dot leads the name
LastDot(name) ==
  LET dots == {i \in 1 .. Len(name) : name[i] = "."}
  IN  IF dots = {} THEN 0 ELSE CHOOSE i \in dots : \A j \in dots : j <= i
extname(name) ==
  IF LastDot(name) <= 1 THEN <<>> ELSE SubSeq(name, LastDot(name), Len(name))

\* faulty variant: the extension is always taken from fileName
ExtensionOf_IgnoresOriginal(fileName, originalFileName) ==
  toLowerCase(extname(fileName))

\* originalExtension of the init route
ExtensionOf(fileName, originalFileName) ==
  IF originalFileName /= <<>>
    THEN toLowerCase(extname(originalFileName))
    ELSE toLowerCase(extname(fileName))

\* the error the init route answers with, "" when it accepts the request
InitError(fileName, originalFileName, totalSize) ==
  IF totalSize <= 0 THEN "Invalid totalSize"
  ELSE IF fileName = <<>> THEN "Missing required fields: fileName, totalSize"
  ELSE IF ExtensionOf(fileName, originalFileName) \notin ALLOWED_EXTENSIONS
    THEN "Invalid file format. Allowed formats: .mkv, .mp4, .srt"
  ELSE ""

\* the store and the identifiers after the init route
InitEffect(fileName, originalFileName, totalSize, chunkSize) ==
  /\ created /= Ids
  /\ IF InitError(fileName, originalFileName, totalSize) /= ""
       THEN UNCHANGED <<sessions, created>>
       ELSE LET optimalChunkSize ==
                  IF chunkSize /= 0 THEN chunkSize
                  ELSE calculateOptimalChunkSize(totalSize)
            IN  /\ sessions' = [id \in DOMAIN sessions \cup {FreshId} |->
                      IF id = FreshId
                        THEN createSession(totalSize, optimalChunkSize, now)
                        ELSE sessions[id]]
                /\ created' = created \cup {FreshId}

InitUpload(fileName, originalFileName, totalSize, chunkSize) ==
  /\ InitEffect(fileName, originalFileName, totalSize, chunkSize)
  /\ UNCHANGED <<now, ticks, files, dest, fileWriteQueues, reqs, nreq>>
  /\ UNCHANGED clientVars

\* the init route with the request and its answer kept
InitRequest(r, fileName, originalFileName, totalSize, chunkSize) ==
  /\ nreq < MaxReqs
  /\ r = nreq + 1
  /\ nreq' = r
  /\ InitEffect(fileName, originalFileName, totalSize, chunkSize)
  /\ reqs' = [reqs EXCEPT ![r] =
       [NoReq EXCEPT !.kind = "init", !.pc = "done",
                     !.fileName = fileName,
                     !.originalFileName = originalFileName,
                     !.totalSize = totalSize,
                     !.chunkSize = chunkSize,
                     !.answer =
                       IF InitError(fileName, originalFileName, totalSize) /= ""
                         THEN NoReq.answer
                         ELSE [ chunkSize |-> sessions'[FreshId].chunkSize,
                                totalChunks |-> sessions'[FreshId].totalChunks ],
                     !.success = (InitError(fileName, originalFileName, totalSize) = ""),
                     !.error = InitError(fileName, originalFileName, totalSize)]]
  /\ UNCHANGED <<now, ticks, files, dest, fileWriteQueues>>
  /\ UNCHANGED clientVars

(***************************************************************************)
(* POST /upload/chunk, from the parsed form to the first suspension of     *)
(* writeChunk (fs.mkdir).                                                  *)
(***************************************************************************)
\* faulty variant: the received set is never consulted
AlreadyReceived_Never(s, chunkIndex) == FALSE

\* session.receivedChunks.has(chunkIndex)
AlreadyReceived(s, chunkIndex) == chunkIndex \in s.receivedChunks

\* the byte count an unaltered client sends for an index
FullLen(s, chunkIndex) ==
  IF chunkIndex < s.totalChunks
    THEN Min(s.chunkSize, s.totalSize - chunkIndex * s.chunkSize)
    ELSE s.chunkSize

\* the indices a request names: an invalid one, those of the session and the
\* first one beyond them
ChunkIndexInputs(id) ==
  IF id \in DOMAIN sessions THEN -1 .. sessions[id].totalChunks ELSE {0}

\* the byte count the client of a request sends
SentLen(id, chunkIndex) ==
  IF id \in DOMAIN sessions /\ chunkIndex >= 0
    THEN FullLen(sessions[id], chunkIndex)
    ELSE 0

ChunkRequest(r, id, chunkIndex, len) ==
  /\ nreq < MaxReqs
  /\ r = nreq + 1
  /\ nreq' = r
  /\ LET base == [NoReq EXCEPT !.kind = "chunk", !.id = id,
                               !.chunkIndex = chunkIndex, !.len = len,
                               !.sent = SentLen(id, chunkIndex)]
     IN  IF chunkIndex < 0 THEN
           /\ reqs' = [reqs EXCEPT ![r] =
                [base EXCEPT !.pc = "done", !.error = "Invalid chunkIndex"]]
           /\ UNCHANGED sessions
         ELSE IF id \notin DOMAIN sessions THEN
           /\ reqs' = [reqs EXCEPT ![r] =
                [base EXCEPT !.pc = "done", !.error = "Upload session not found"]]
           /\ UNCHANGED sessions
         ELSE IF AlreadyReceived(sessions[id], chunkIndex) THEN
           /\ reqs' = [reqs EXCEPT ![r] =
                [base EXCEPT !.pc = "done", !.success = TRUE]]
           /\ sessions' = getSession(sessions, id, now)
         ELSE
           LET s == sessions[id]
               expectedOffset == chunkIndex * s.chunkSize
               expectedChunkSize ==
                 IF chunkIndex = s.totalChunks - 1
                   THEN s.totalSize - expectedOffset
                   ELSE s.chunkSize
           IN  /\ reqs' = [reqs EXCEPT ![r] =
                    [base EXCEPT !.pc = "mkdir", !.offset = expectedOffset,
                                 !.expected = expectedChunkSize]]
               /\ sessions' = getSession(sessions, id, now)
  /\ UNCHANGED <<now, ticks, created, files, dest, fileWriteQueues>>
  /\ UNCHANGED clientVars

(***************************************************************************)
(* queueFileWrite: the promise chain keyed by file path.                   *)
(***************************************************************************)
\* faulty variant: one queue shared by all paths
QueueKey_Global(id) == 0

\* the key of a session's staging file in fileWriteQueues (its tempFilePath)
QueueKey(id) == id

\* faulty variant: a write never chains behind the tail of its queue
ChainsBehind_Never(key) == FALSE

\* currentQueue is defined: some write for the path has not settled yet
ChainsBehind(key) == key \in DOMAIN fileWriteQueues

MapSet(m, k, v) == [x \in DOMAIN m \cup {k} |-> IF x = k THEN v ELSE m[x]]
MapDelete(m, k) == [x \in DOMAIN m \ {k} |-> m[x]]

Enqueued(rq, id) == {q \in ReqIds : rq[q].kind = "chunk" /\ rq[q].id = id /\ rq[q].ord > 0}

queueFileWrite(r) ==
  /\ reqs[r].pc = "mkdir"
  /\ LET key == QueueKey(reqs[r].id)
         ord == Cardinality(Enqueued(reqs, reqs[r].id)) + 1
     IN  /\ reqs' = [reqs EXCEPT ![r] =
              IF ChainsBehind(key)
                THEN [@ EXCEPT !.pc = "queued", !.prev = fileWriteQueues[key],
                               !.promise = "pending", !.ord = ord]
                ELSE [@ EXCEPT !.pc = "open", !.ran = TRUE,
                               !.promise = "pending", !.ord = ord]]
         /\ fileWriteQueues' = MapSet(fileWriteQueues, key, r)
  /\ UNCHANGED <<now, ticks, sessions, created, files, dest, nreq>>
  /\ UNCHANGED clientVars

\* the writes whose promises are chained, directly or not, on r's promise
RECURSIVE Behind(_, _)
Behind(rq, r) ==
  LET next == {q \in ReqIds : rq[q].pc = "queued" /\ rq[q].prev = r}
  IN  next \cup UNION {Behind(rq, q) : q \in next}

ReleaseQueue(settled, key) ==
  IF key \in DOMAIN fileWriteQueues /\ fileWriteQueues[key] \in settled
    THEN MapDelete(fileWriteQueues, key)
    ELSE fileWriteQueues

\* writeFn of r resolved: r's route marks the chunk and answers; the write
\* chained on r's promise starts
SettleFulfilled(r) ==
  /\ reqs' = [q \in ReqIds |->
       IF q = r
         THEN [reqs[q] EXCEPT !.pc = "done", !.promise = "fulfilled", !.success = TRUE]
       ELSE IF reqs[q].pc = "queued" /\ reqs[q].prev = r
         THEN [reqs[q] EXCEPT !.pc = "open", !.ran = TRUE]
       ELSE reqs[q]]
  /\ fileWriteQueues' = ReleaseQueue({r}, QueueKey(reqs[r].id))
  /\ sessions' = markChunkReceived(sessions, reqs[r].id, reqs[r].chunkIndex, now)

\* writeFn of r threw: p.then(() => writeFn()) has no rejection handler, so
\* every promise chained on r's rejects with the same error, its writeFn uncalled
SettleRejected(r, error) ==
  LET failed == {r} \cup Behind(reqs, r)
  IN  /\ reqs' = [q \in ReqIds |->
           IF q \in failed
             THEN [reqs[q] EXCEPT !.pc = "done", !.promise = "rejected", !.error = error]
             ELSE reqs[q]]
      /\ fileWriteQueues' = ReleaseQueue(failed, QueueKey(reqs[r].id))
      /\ UNCHANGED sessions

(***************************************************************************)
(* writeChunk's write function: createWriteStream opens the staging file   *)
(* ("w" for chunk 0, "r+" otherwise), the payload is piped to the offset,  *)
(* then the byte count and the file length are validated.                  *)
(***************************************************************************)
WriteOpen(r) ==
  /\ reqs[r].pc = "open"
  /\ LET id == reqs[r].id
     IN  IF reqs[r].chunkIndex = 0 THEN
           /\ files' = [files EXCEPT ![id] = EmptyFile]
           /\ reqs' = [reqs EXCEPT ![r].pc = "writing"]
           /\ UNCHANGED <<sessions, fileWriteQueues>>
         ELSE IF files[id].exists THEN
           /\ reqs' = [reqs EXCEPT ![r].pc = "writing"]
           /\ UNCHANGED <<sessions, fileWriteQueues, files>>
         ELSE
           /\ SettleRejected(r, "ENOENT")
           /\ UNCHANGED files
  /\ UNCHANGED <<now, ticks, created, dest, nreq>>
  /\ UNCHANGED clientVars

\* faulty variant: the byte count is not compared with the expected size
SizeMismatch_Never(totalBytesRead, expectedChunkSize) == FALSE

\* Math.abs(totalBytesRead - expectedChunkSize) > 1024
SizeMismatch(totalBytesRead, expectedChunkSize) ==
  Abs(totalBytesRead - expectedChunkSize) > SIZE_TOLERANCE

WriteFinish(r) ==
  /\ reqs[r].pc = "writing"
  /\ LET id == reqs[r].id
         totalBytesRead == reqs[r].len
         \* the stream writes through its descriptor; once the path is
         \* unlinked the bytes no longer reach the file at the path
         written == IF files[id].exists
                      THEN WriteAt(files[id], reqs[r].chunkIndex, reqs[r].offset, totalBytesRead)
                      ELSE files[id]
     IN  /\ files' = [files EXCEPT ![id] = written]
         /\ IF SizeMismatch(totalBytesRead, reqs[r].expected)
              THEN SettleRejected(r, "Chunk size mismatch")
            ELSE IF ~written.exists
              THEN SettleRejected(r, "ENOENT")
            ELSE IF written.size < reqs[r].offset + totalBytesRead - SIZE_TOLERANCE
              THEN SettleRejected(r, "File size mismatch after write")
            ELSE SettleFulfilled(r)
  /\ UNCHANGED <<now, ticks, created, dest, nreq>>
  /\ UNCHANGED clientVars


(***************************************************************************)
(* POST /upload/complete.                                                  *)
(***************************************************************************)
\* faulty variant: the length of the staging file is not compared
validateFileIntegrity_NoTolerance(f, totalSize) == f.exists

\* validateFileIntegrity: valid iff the staging file can be stat'ed and its
\* length is within the tolerance of totalSize
validateFileIntegrity(f, totalSize) ==
  f.exists /\ Abs(f.size - totalSize) <= SIZE_TOLERANCE

CompleteRequest(r, id) ==
  /\ nreq < MaxReqs
  /\ r = nreq + 1
  /\ nreq' = r
  /\ LET base == [NoReq EXCEPT !.kind = "complete", !.id = id]
     IN  IF id \notin DOMAIN sessions THEN
           /\ reqs' = [reqs EXCEPT ![r] =
                [base EXCEPT !.pc = "done", !.error = "Upload session not found"]]
           /\ UNCHANGED sessions
         ELSE IF ~isComplete(sessions, id) THEN
           /\ reqs' = [reqs EXCEPT ![r] =
                [base EXCEPT !.pc = "done", !.error = "Upload not complete",
                             !.missing = getSessionStatus(sessions, id).missingChunks]]
           /\ sessions' = getSession(sessions, id, now)
         ELSE
           /\ reqs' = [reqs EXCEPT ![r] =
                [base EXCEPT !.pc = "validate", !.expected = sessions[id].totalSize]]
           /\ sessions' = getSession(sessions, id, now)
  /\ UNCHANGED <<now, ticks, created, files, dest, fileWriteQueues>>
  /\ UNCHANGED clientVars

CompleteValidate(r) ==
  /\ reqs[r].pc = "validate"
  /\ LET f == files[reqs[r].id]
         actualSize == IF f.exists THEN f.size ELSE -1
     IN  reqs' = [reqs EXCEPT ![r] =
           IF validateFileIntegrity(f, reqs[r].expected)
             THEN [@ EXCEPT !.pc = "copy", !.statSize = actualSize]
             ELSE [@ EXCEPT !.pc = "done", !.statSize = actualSize,
                            !.error = "File size mismatch"]]
  /\ UNCHANGED <<now, ticks, sessions, created, files, dest, fileWriteQueues, nreq>>
  /\ UNCHANGED clientVars

\* the streaming copy to the target path and the unlink of the staging file.
\* When the staging file is gone the read stream fails with ENOENT and the
\* move is skipped; the write stream on the target path was created beside
\* it, so the target is either left as it was or already truncated.
CompleteCopy(r, truncated) ==
  /\ reqs[r].pc = "copy"
  /\ LET id == reqs[r].id
     IN  IF files[id].exists THEN
           /\ truncated = FALSE
           /\ dest' = [dest EXCEPT ![id] = files[id]]
           /\ files' = [files EXCEPT ![id] = NoFile]
         ELSE
           /\ dest' = [dest EXCEPT ![id] = IF truncated THEN EmptyFile ELSE @]
           /\ UNCHANGED files
  /\ reqs' = [reqs EXCEPT ![r].pc = "delete"]
  /\ UNCHANGED <<now, ticks, sessions, created, fileWriteQueues, nreq>>
  /\ UNCHANGED clientVars

CompleteDelete(r) ==
  /\ reqs[r].pc = "delete"
  /\ sessions' = MapDelete(sessions, reqs[r].id)
  /\ reqs' = [reqs EXCEPT ![r].pc = "done", ![r].success = TRUE]
  /\ UNCHANGED <<now, ticks, created, files, dest, fileWriteQueues, nreq>>
  /\ UNCHANGED clientVars

(***************************************************************************)
(* GET /upload/status/:uploadId: the store is touched, nothing else.       *)
(***************************************************************************)
\* faulty variant: the answer does not depend on the lookup
StatusResponse_NoLookup(store, id) == [success |-> TRUE, error |-> ""]

\* the answer of the route: the status, or the error for a null status
StatusResponse(store, id) ==
  IF id \in DOMAIN store
    THEN [success |-> TRUE, error |-> ""]
    ELSE [success |-> FALSE, error |-> "Upload session not found"]

StatusPoll(id) ==
  /\ sessions' = getSession(sessions, id, now)
  /\ UNCHANGED <<now, ticks, created, files, dest, fileWriteQueues, reqs, nreq>>
  /\ UNCHANGED clientVars

(***************************************************************************)
(* The clock and the periodic eviction sweep.                              *)
(***************************************************************************)
Tick ==
  /\ ticks < MaxTicks
  /\ ticks' = ticks + 1
  /\ now' = now + TickStep
  /\ UNCHANGED <<sessions, created, files, dest, fileWriteQueues, reqs, nreq>>
  /\ UNCHANGED clientVars

\* the clock moves by an hour, by the TTL, or by just over the TTL
AdvanceSteps == {CREATION_GRACE, SESSION_TTL, SESSION_TTL + 1}

Advance(d) ==
  /\ ticks < MaxAdvances
  /\ ticks' = ticks + 1
  /\ now' = now + d
  /\ UNCHANGED <<sessions, created, files, dest, fileWriteQueues, reqs, nreq>>
  /\ UNCHANGED clientVars

\* faulty variant: the TTL is counted from the creation of the session
Expired_FromCreation(s, t) ==
  LET age == t - s.createdAt
      timeSinceCreation == t - s.createdAt
      isActive == age < ACTIVE_SESSION_THRESHOLD
  IN  age > SESSION_TTL /\ ~isActive /\ timeSinceCreation > CREATION_GRACE

Expired(s, t) ==
  LET age == t - s.lastActivity
      timeSinceCreation == t - s.createdAt
      isActive == age < ACTIVE_SESSION_THRESHOLD
  IN  age > SESSION_TTL /\ ~isActive /\ timeSinceCreation > CREATION_GRACE

\* the store after a sweep at time t
SweptStore(store, t) ==
  [id \in {i \in DOMAIN store : ~Expired(store[i], t)} |-> store[id]]

cleanupExpiredSessions ==
  /\ sessions' = SweptStore(sessions, now)
  /\ UNCHANGED <<now, ticks, created, files, dest, fileWriteQueues, reqs, nreq>>
  /\ UNCHANGED clientVars

Next ==
  \/ \E fileName \in FileNameInputs, originalFileName \in OriginalFileNameInputs :
       \E totalSize \in TotalSizeInputs, chunkSize \in ChunkSizeInputs :
         InitUpload(fileName, originalFileName, totalSize, chunkSize)
  \/ \E id \in Ids : \E chunkIndex \in ChunkIndexInputs(id) :
       ChunkRequest(nreq + 1, id, chunkIndex, SentLen(id, chunkIndex))
  \/ \E r \in ReqIds : queueFileWrite(r)
  \/ \E r \in ReqIds : WriteOpen(r)
  \/ \E r \in ReqIds : WriteFinish(r)
  \/ \E id \in Ids : CompleteRequest(nreq + 1, id)
  \/ \E r \in ReqIds : CompleteValidate(r)
  \/ \E r \in ReqIds, truncated \in BOOLEAN : CompleteCopy(r, truncated)
  \/ \E r \in ReqIds : CompleteDelete(r)
  \/ \E id \in Ids : StatusPoll(id)

\* the server while the clock stands still (no session can pass the eviction
\* gates within such a period)
Spec == Init /\ [][Next]_vars

\* a chunk request whose body arrives cut short by more than the tolerance
ShortReqs ==
  {q \in ReqIds : reqs[q].kind = "chunk" /\ reqs[q].len < reqs[q].sent}

CutChunkRequest(id, chunkIndex) ==
  /\ Cardinality(ShortReqs) < MaxShort
  /\ SentLen(id, chunkIndex) > 0
  /\ ChunkRequest(nreq + 1, id, chunkIndex, Max(SentLen(id, chunkIndex) - ShortBy, 0))

\* the server receiving whole and cut bodies
NextCut ==
  \/ Next
  \/ \E id \in Ids : \E chunkIndex \in ChunkIndexInputs(id) :
       CutChunkRequest(id, chunkIndex)

SpecCut == Init /\ [][NextCut]_vars

\* the server with the clock advancing and the eviction sweep running
NextClock ==
  \/ Next
  \/ Tick
  \/ cleanupExpiredSessions

SpecClock == Init /\ [][NextClock]_vars

\* the init route alone, its requests and answers kept
\* sessions that are only created and polled while the clock moves and the
\* sweep runs
NextSweep ==
  \/ \E fileName \in FileNameInputs, originalFileName \in OriginalFileNameInputs :
       \E totalSize \in TotalSizeInputs, chunkSize \in ChunkSizeInputs :
         InitUpload(fileName, originalFileName, totalSize, chunkSize)
  \/ \E id \in Ids : StatusPoll(id)
  \/ \E d \in AdvanceSteps : Advance(d)
  \/ cleanupExpiredSessions

SpecSweep == Init /\ [][NextSweep]_vars

NextInit ==
  \E fileName \in FileNameInputs, originalFileName \in OriginalFileNameInputs :
       \E totalSize \in TotalSizeInputs, chunkSize \in ChunkSizeInputs :
         InitRequest(nreq + 1, fileName, originalFileName, totalSize, chunkSize)

SpecInit == Init /\ [][NextInit]_vars

\* init requests for files of several sizes, with and without a chunkSize
PlanSizeInputs == {0, 5000, 25 * MB, 330 * MB, 600 * MB, 1500 * MB}
PlanChunkSizeInputs == {0, 4 * MB}

NextInitPlan ==
  \E totalSize \in PlanSizeInputs, chunkSize \in PlanChunkSizeInputs :
    InitRequest(nreq + 1, Name_a_mkv, <<>>, totalSize, chunkSize)

SpecInitPlan == Init /\ [][NextInitPlan]_vars


(***************************************************************************)
(* The planner applied by /upload/init to sizes of every tier.             *)
(***************************************************************************)
\* /upload/init without chunkSize, for q KB and r bytes: the chunk size in KB
\* and Math.ceil(totalSize / chunkSize)
PlanUpload ==
  /\ calc.fn = "calculateOptimalChunkSize"
  /\ ~calc.done
  /\ LET q == calc.arg[1]
         r == calc.arg[2]
         chunkKB == calculateOptimalChunkSizeKB(q)
     IN  calc' = [calc EXCEPT
           !.done = TRUE,
           !.out = [ chunkSize |-> chunkKB,
                     totalChunks |->
                       IF chunkKB = 0 THEN 0
                       ELSE CeilDiv(q + (IF r > 0 THEN 1 ELSE 0), chunkKB) ]]
  /\ UNCHANGED <<serverVars, chunkerVars, clock, cticks, localStorage, progress>>

InitPlanner ==
  /\ InitBase
  /\ calc \in {[fn |-> "calculateOptimalChunkSize", arg |-> a, done |-> FALSE, out |-> <<>>] :
                a \in PlannerInputs}

SpecPlanner == InitPlanner /\ [][PlanUpload]_vars

(***************************************************************************)
(* UploadChunker.calculateChunks: the chunk list of a file.                *)
(***************************************************************************)
MaxFileSize == 12
MaxChunkSize == 5
ChunkingInputs ==
  {<<totalSize, chunkSize>> : totalSize \in 1 .. MaxFileSize, chunkSize \in 1 .. MaxChunkSize}
    \cup {<<25 * MB, 10 * MB>>, <<30 * MB, 10 * MB>>, <<5000, 10 * MB>>, <<10 * MB, 10 * MB>>}

\* faulty variant: the end of a chunk is not clamped to the file size
ChunksFrom_NoClamp(start, index, totalSize, chunkSize) ==
  [n \in 1 .. CeilDiv(totalSize - start, chunkSize) |->
     [ index |-> index + n - 1,
       start |-> start + (n - 1) * chunkSize,
       end |-> start + n * chunkSize,
       size |-> chunkSize ]]

\* the loop for (start; start < totalSize; start += chunkSize) from one of
\* its iterations on
RECURSIVE ChunksFrom(_, _, _, _)
ChunksFrom(start, index, totalSize, chunkSize) ==
  IF ~(start < totalSize) THEN <<>>
  ELSE LET end == Min(start + chunkSize, totalSize)
       IN  <<[index |-> index, start |-> start, end |-> end, size |-> end - start]>>
             \o ChunksFrom(start + chunkSize, index + 1, totalSize, chunkSize)

calculateChunks(totalSize, chunkSize) == ChunksFrom(0, 0, totalSize, chunkSize)

\* new UploadChunker(file, url, chunkSize): the chunk list is computed
ConstructChunker ==
  /\ calc.fn = "calculateChunks"
  /\ ~calc.done
  /\ calc' = [calc EXCEPT !.done = TRUE,
                          !.out = calculateChunks(calc.arg[1], calc.arg[2])]
  /\ UNCHANGED <<serverVars, chunkerVars, clock, cticks, localStorage, progress>>

InitChunking ==
  /\ InitBase
  /\ calc \in {[fn |-> "calculateChunks", arg |-> a, done |-> FALSE, out |-> <<>>] :
                a \in ChunkingInputs}

SpecChunking == InitChunking /\ [][ConstructChunker]_vars

(***************************************************************************)
(* calculateExponentialBackoff.  Math.random() returns a number in [0, 1): *)
(* here k / RandomDen for k in 0 .. RandomDen - 1.  The base delay is a    *)
(* multiple of 1000, so baseDelay * 0.3 * k / 10 is a whole number of ms.  *)
(***************************************************************************)
MaxRetryCount == 8
RandomDen == 10
RandomInputs == 0 .. RandomDen - 1

RECURSIVE Pow2(_)
Pow2(n) == IF n <= 0 THEN 1 ELSE 2 * Pow2(n - 1)

\* faulty variant: the base delay grows by one second per retry
calculateExponentialBackoff_Linear(retryCount, k) ==
  LET baseDelay == Min(1000 * (retryCount + 1), 16000)
      jitter == (baseDelay * 3 * k) \div (10 * RandomDen)
  IN  [baseDelay |-> baseDelay, jitter |-> jitter, delay |-> baseDelay + jitter]

calculateExponentialBackoff(retryCount, k) ==
  LET baseDelay == Min(1000 * Pow2(retryCount), 16000)
      jitter == (baseDelay * 3 * k) \div (10 * RandomDen)
  IN  [baseDelay |-> baseDelay, jitter |-> jitter, delay |-> baseDelay + jitter]

ComputeBackoff ==
  /\ calc.fn = "calculateExponentialBackoff"
  /\ ~calc.done
  /\ calc' = [calc EXCEPT !.done = TRUE,
                          !.out = calculateExponentialBackoff(calc.arg[1], calc.arg[2])]
  /\ UNCHANGED <<serverVars, chunkerVars, clock, cticks, localStorage, progress>>

InitBackoff ==
  /\ InitBase
  /\ calc \in {[fn |-> "calculateExponentialBackoff", arg |-> <<r, k>>,
                done |-> FALSE, out |-> <<>>] :
                r \in 0 .. MaxRetryCount, k \in RandomInputs}

SpecBackoff == InitBackoff /\ [][ComputeBackoff]_vars

(***************************************************************************)
(* UploadStateManager (upload-state.ts).  A text in localStorage is the    *)
(* empty string, a text JSON.parse rejects, or the JSON text of an object: *)
(* the sequence of its members, each a name and a value.  Storage that     *)
(* refuses a write (quota) is not modelled.                                *)
(***************************************************************************)
MaxCalls == 3
MaxClockSteps == 2
MAX_AGE == 24 * 60 * 60 * 1000
StateIds == 1 .. 2
EmptyText == <<>>
BrokenText == <<<<"{", "">>>>
FieldNames == <<"uploadId", "totalSize", "totalChunks", "chunkSize", "timestamp">>
Undefined == [undefined |-> TRUE]

\* the session data the page saves, with the timestamp it passes
SessionDataInputs(id, t) ==
  {[uploadId |-> id, totalSize |-> 25 * MB, totalChunks |-> 3,
    chunkSize |-> 10 * MB, timestamp |-> ts] : ts \in {t, 0}}

storageKey(id) == <<"upload_session_", id>>

\* JSON.stringify of an object: its members in order
stringify(obj) == [i \in 1 .. Len(FieldNames) |-> <<FieldNames[i], obj[FieldNames[i]]>>]

\* JSON.parse accepts the text
Parses(text) ==
  /\ text /= EmptyText
  /\ \A i \in 1 .. Len(text) : text[i][1] \in {FieldNames[j] : j \in 1 .. Len(FieldNames)}

\* JSON.parse of a text it accepts: the object with the members of the text
parse(text) ==
  [name \in {text[i][1] : i \in 1 .. Len(text)} |->
     LET i == CHOOSE j \in 1 .. Len(text) :
                /\ text[j][1] = name
                /\ \A l \in 1 .. Len(text) : text[l][1] = name => l <= j
     IN  text[i][2]]

\* localStorage.removeItem
removeItem(storage, key) == [k \in DOMAIN storage \ {key} |-> storage[k]]

\* save: the storage afterwards
save(storage, id, sessionData, t) ==
  LET data == stringify([sessionData EXCEPT !.timestamp = t])
      key == storageKey(id)
  IN  [k \in DOMAIN storage \cup {key} |-> IF k = key THEN data ELSE storage[k]]

\* faulty variant: a record expires after 24 minutes
Stale_Minutes(sessionData, t) == t - sessionData.timestamp > 24 * 60 * 1000

\* load: the record is older than maxAge
Stale(sessionData, t) == t - sessionData.timestamp > MAX_AGE

\* load: the value returned and the storage afterwards
load(storage, id, t) ==
  LET key == storageKey(id)
  IN  IF key \notin DOMAIN storage \/ storage[key] = EmptyText
        THEN [value |-> Null, storage |-> storage]
      ELSE IF ~Parses(storage[key])
        THEN [value |-> Null, storage |-> removeItem(storage, key)]
      ELSE IF Stale(parse(storage[key]), t)
        THEN [value |-> Null, storage |-> removeItem(storage, key)]
      ELSE [value |-> parse(storage[key]), storage |-> storage]

\* the call log: the number of calls so far, the call and its value
StateCall(fn, arg, out) ==
  /\ calc.done < MaxCalls
  /\ calc' = [fn |-> fn, arg |-> arg, done |-> calc.done + 1, out |-> out]

Save(id, sessionData) ==
  /\ StateCall("save", <<id, sessionData>>, Undefined)
  /\ localStorage' = save(localStorage, id, sessionData, clock)
  /\ UNCHANGED <<serverVars, chunkerVars, clock, cticks, progress>>

Load(id) ==
  /\ StateCall("load", <<id>>, load(localStorage, id, clock).value)
  /\ localStorage' = load(localStorage, id, clock).storage
  /\ UNCHANGED <<serverVars, chunkerVars, clock, cticks, progress>>

Clear(id) ==
  /\ StateCall("clear", <<id>>, Undefined)
  /\ localStorage' = removeItem(localStorage, storageKey(id))
  /\ UNCHANGED <<serverVars, chunkerVars, clock, cticks, progress>>

\* another script of the page overwrites the record
Overwrite(id, text) ==
  /\ StateCall("setItem", <<id, text>>, Undefined)
  /\ localStorage' = [k \in DOMAIN localStorage \cup {storageKey(id)} |->
                        IF k = storageKey(id) THEN text ELSE localStorage[k]]
  /\ UNCHANGED <<serverVars, chunkerVars, clock, cticks, progress>>

\* the browser's clock moves by a second, by 24 h or by just over 24 h
ClockSteps == {1000, MAX_AGE - 1000, MAX_AGE + 1}

ClockAdvance(d) ==
  /\ cticks < MaxClockSteps
  /\ cticks' = cticks + 1
  /\ clock' = clock + d
  /\ UNCHANGED <<serverVars, chunkerVars, localStorage, calc, progress>>

InitState ==
  /\ InitBase
  /\ calc = [fn |-> "none", arg |-> <<>>, done |-> 0, out |-> Undefined]

NextState ==
  \/ \E id \in StateIds : \E sessionData \in SessionDataInputs(id, clock) :
       Save(id, sessionData)
  \/ \E id \in StateIds : Load(id)
  \/ \E id \in StateIds : Clear(id)
  \/ \E id \in StateIds, text \in {EmptyText, BrokenText} : Overwrite(id, text)
  \/ \E d \in ClockSteps : ClockAdvance(d)

SpecState == InitState /\ [][NextState]_vars

(***************************************************************************)
(* UploadChunker (client).  One uploadAll call on a chunker whose progress *)
(* callback is set.  An attempt of a chunk is an uploadChunk call between  *)
(* its dispatch and the settling of Promise.race; its HTTP request is the  *)
(* XMLHttpRequest it sent, which nothing but the network ends: neither the *)
(* timeout nor cancel() calls xhr.abort().  The server is known to the     *)
(* client by the set of indices it has recorded.                           *)
(***************************************************************************)
Chunks == 0 .. NumClientChunks - 1
SpeedInputs == {0, MB \div 2, MB, 2 * MB, 5 * MB}
ClientChunkSize == 10 * MB
DrawInputs == {0, RandomDen - 1}

calculateAdaptiveParallelism(uploadSpeed) ==
  IF 2 * uploadSpeed < MB THEN 1
  ELSE IF uploadSpeed < MB THEN 2
  ELSE IF uploadSpeed < 2 * MB THEN 3
  ELSE IF uploadSpeed < 5 * MB THEN 4
  ELSE 5

\* the estimate (chunkSize / uploadSpeed) * 3 is compared with the bounds as
\* it is; its fraction never decides the comparison for the speeds drawn
calculateAdaptiveTimeout(chunkSize, uploadSpeed) ==
  IF uploadSpeed <= 0 THEN MAX_TIMEOUT
  ELSE Max(MIN_TIMEOUT, Min(MAX_TIMEOUT, (chunkSize * 3) \div uploadSpeed))

\* updateProgress: the parallelism after a progress computation at a speed,
\* or unchanged when the adjust interval has not elapsed
AdjustedParallelism(uploadSpeed, elapsed) ==
  IF elapsed
    THEN Max(MIN_PARALLEL_CHUNKS,
             Min(MAX_PARALLEL_CHUNKS, calculateAdaptiveParallelism(uploadSpeed)))
    ELSE currentParallelism

setUploadId ==
  /\ ~uploadId
  /\ uploadId' = TRUE
  /\ UNCHANGED <<chunkStatuses, currentParallelism, pcU, inflight, uploadError, maxRetriesThrown>>
  /\ UNCHANGED <<attemptVars, xhrs, serverHas, cancels, polls, timers>>
  /\ UNCHANGED <<serverVars, pageVars>>

\* faulty variant: the upload id is not looked at
UploadIdMissing_Never == FALSE

\* if (!this.uploadId) throw
UploadIdMissing == ~uploadId

UploadAllCall ==
  /\ pcU = "idle"
  /\ IF UploadIdMissing
       THEN /\ pcU' = "rejected"
            /\ uploadError' = "Upload ID not set. Call initUpload first."
            /\ UNCHANGED timers
       ELSE /\ pcU' = "loop"
            /\ timers' = TRUE
            /\ UNCHANGED uploadError
  /\ UNCHANGED <<uploadId, chunkStatuses, currentParallelism, inflight, maxRetriesThrown>>
  /\ UNCHANGED <<attemptVars, xhrs, serverHas, cancels, polls>>
  /\ UNCHANGED <<serverVars, pageVars>>

getActiveUploads(statuses) ==
  Cardinality({c \in Chunks : statuses[c].status = "uploading"})

\* detectStuckChunks: the uploading chunks found stuck at the current time;
\* slow holds the chunks with less than 10% of their bytes sent so far
StuckChunks(statuses, slow, uploadSpeed) ==
  {c \in Chunks :
     /\ statuses[c].status = "uploading"
     /\ chunkUploadStartTimes[c] /= 0
     /\ clock - chunkUploadStartTimes[c] > STUCK_CHUNK_THRESHOLD
     /\ \/ /\ c \in slow
           /\ 2 * (clock - chunkUploadStartTimes[c])
                > calculateAdaptiveTimeout(ClientChunkSize, uploadSpeed)
        \/ 2 * (clock - chunkUploadStartTimes[c]) > 3 * STUCK_CHUNK_THRESHOLD}

\* detectStuckChunks: the chunks found stuck are reset to pending
detectStuckChunks(statuses, stuck) ==
  [c \in Chunks |->
     IF c \in stuck THEN [statuses[c] EXCEPT !.status = "pending"] ELSE statuses[c]]

\* getPendingChunks: the failed chunks still inside their backoff window,
\* each with its own random draw
InBackoff(statuses, lastRetry, draws) ==
  {c \in Chunks :
     /\ statuses[c].status = "failed"
     /\ lastRetry[c] /= 0
     /\ clock - lastRetry[c]
          < calculateExponentialBackoff(statuses[c].retries, draws[c]).delay}

\* faulty variant: every chunk is pending, whatever its status
getPendingChunks_All(statuses, inBackoff) == Chunks

\* getPendingChunks: pending or failed chunks, but for the failed ones still
\* inside their backoff window
getPendingChunks(statuses, inBackoff) ==
  {c \in Chunks : /\ statuses[c].status \in {"pending", "failed"}
                  /\ ~(statuses[c].status = "failed" /\ c \in inBackoff)}

\* faulty variant: every pending chunk is taken, whatever the free slots
Slice_All(set, n) == set

\* pending.slice(0, slotsAvailable) of the sorted list
RECURSIVE Slice(_, _)
Slice(set, n) ==
  IF n <= 0 \/ set = {} THEN {}
  ELSE LET least == CHOOSE c \in set : \A d \in set : c <= d
       IN  {least} \cup Slice(set \ {least}, n - 1)

AllCompleted(statuses) == \A c \in Chunks : statuses[c].status = "completed"

\* uploadChunk, lines 335-347: a failed chunk inside the backoff of its
\* previous retry count returns false without sending anything
Deferred(statuses, lastRetry, draws, c) ==
  /\ statuses[c].status = "failed"
  /\ lastRetry[c] /= 0
  /\ statuses[c].retries > 0
  /\ clock - lastRetry[c]
       < calculateExponentialBackoff(statuses[c].retries - 1, draws[c]).delay

\* one round of uploadAll's loop, from getPendingChunks to the await
LoopRound(slow, draws, uploadSpeed, elapsed) ==
  /\ pcU \in {"loop", "sleep"}
  /\ slow \subseteq {c \in Chunks : chunkStatuses[c].status = "uploading"}
  /\ \A c \in Chunks : chunkStatuses[c].status /= "failed" => draws[c] = 0
  /\ LET stuck == StuckChunks(chunkStatuses, slow, uploadSpeed)
         statuses == detectStuckChunks(chunkStatuses, stuck)
         lastRetry == [c \in Chunks |-> IF c \in stuck THEN clock ELSE lastRetryTime[c]]
         pending == getPendingChunks(statuses, InBackoff(statuses, lastRetry, draws))
         slotsAvailable == currentParallelism - getActiveUploads(statuses)
         chunksToUpload == Slice(pending, slotsAvailable)
         thrown == {c \in chunksToUpload : statuses[c].retries >= MAX_RETRIES}
         called == chunksToUpload \ thrown
         deferred == {c \in called : Deferred(statuses, lastRetry, draws, c)}
         started == called \ deferred
         startTimes == [c \in Chunks |->
           IF c \in started THEN clock
           ELSE IF c \in stuck THEN 0 ELSE chunkUploadStartTimes[c]]
     IN  /\ lastRetryTime' = lastRetry
         /\ IF pending = {} THEN
              /\ IF AllCompleted(statuses)
                   THEN pcU' = "resolved" /\ UNCHANGED uploadError
                   ELSE pcU' = "rejected" /\ uploadError' = "Some chunks failed to upload"
              /\ chunkStatuses' = statuses
              /\ inflight' = inflight \ stuck
              /\ timers' = FALSE
              /\ chunkUploadStartTimes' = startTimes
              /\ UNCHANGED <<currentParallelism, maxRetriesThrown, timeoutAt, xhrs>>
            ELSE IF slotsAvailable <= 0 THEN
              /\ pcU' = "sleep"
              /\ chunkStatuses' = statuses
              /\ inflight' = inflight \ stuck
              /\ chunkUploadStartTimes' = startTimes
              /\ UNCHANGED <<currentParallelism, uploadError, maxRetriesThrown,
                             timeoutAt, xhrs, timers>>
            ELSE
              \* a callback that throws rejects only its own promise, and
              \* Promise.allSettled never rejects: the loop goes on
              /\ chunkStatuses' = [c \in Chunks |->
                   IF c \in started THEN [statuses[c] EXCEPT !.status = "uploading"]
                   ELSE IF c \in deferred
                     THEN [status |-> "pending", retries |-> statuses[c].retries + 1]
                   ELSE statuses[c]]
              /\ inflight' = (inflight \ stuck) \cup started
              /\ chunkUploadStartTimes' = startTimes
              /\ timeoutAt' = [c \in Chunks |->
                   IF c \in started
                     THEN clock + calculateAdaptiveTimeout(ClientChunkSize, uploadSpeed)
                     ELSE timeoutAt[c]]
              /\ xhrs' = xhrs \cup
                   {[index |-> c, attempt |-> statuses[c].retries] : c \in started}
              /\ maxRetriesThrown' = (maxRetriesThrown \/ thrown /= {})
              /\ pcU' = IF started = {} THEN "loop" ELSE "await"
              /\ currentParallelism' =
                   IF started = {} THEN currentParallelism
                   ELSE AdjustedParallelism(uploadSpeed, elapsed)
              /\ UNCHANGED <<uploadError, timers>>
  /\ UNCHANGED <<uploadId, serverHas, cancels, polls>>
  /\ UNCHANGED <<serverVars, pageVars>>

\* the request of the attempt of chunk c
RequestOf(c) == [index |-> c, attempt |-> chunkStatuses[c].retries]

\* the statuses a chunk passes through when its attempt ends as a failure:
\* failed in uploadChunk's catch (483-488), pending in the dispatch callback
\* of uploadAll (627); no task runs between the two
FailurePath == <<"uploading", "failed", "pending">>

\* the attempts end as failures: uploadChunk's catch sets failed and
\* lastRetryTime, and the dispatch callback of uploadAll (lines 625-629)
\* counts the retry and resets the chunk to pending
Failed(statuses, ended) ==
  [c \in Chunks |->
     IF c \in ended THEN [status |-> "pending", retries |-> statuses[c].retries + 1]
     ELSE statuses[c]]

\* the request of an attempt ends: the server's answer arrives ("success"),
\* the server recorded the chunk but its answer is lost ("lost"), or the
\* request fails before the server records anything ("error")
ChunkSettle(c, outcome, uploadSpeed, elapsed) ==
  /\ c \in inflight
  /\ chunkStatuses' =
       IF outcome = "success"
         THEN [chunkStatuses EXCEPT ![c] = [status |-> "completed", retries |-> 0]]
         ELSE Failed(chunkStatuses, {c})
  /\ lastRetryTime' =
       IF outcome = "success" THEN lastRetryTime ELSE [lastRetryTime EXCEPT ![c] = clock]
  /\ serverHas' = IF outcome = "error" THEN serverHas ELSE serverHas \cup {c}
  /\ xhrs' = xhrs \ {RequestOf(c)}
  /\ chunkUploadStartTimes' = [chunkUploadStartTimes EXCEPT ![c] = 0]
  /\ timeoutAt' = [timeoutAt EXCEPT ![c] = 0]
  /\ inflight' = inflight \ {c}
  /\ pcU' = IF pcU = "await" /\ inflight' = {} THEN "loop" ELSE pcU
  /\ currentParallelism' = AdjustedParallelism(uploadSpeed, elapsed)
  /\ UNCHANGED <<uploadId, uploadError, maxRetriesThrown, cancels, polls, timers>>
  /\ UNCHANGED <<serverVars, pageVars>>

\* the 200 ms progress interval; timers run only while uploadAll is suspended
ProgressTick(uploadSpeed) ==
  /\ timers
  /\ pcU \in {"await", "sleep"}
  /\ currentParallelism' = AdjustedParallelism(uploadSpeed, TRUE)
  /\ UNCHANGED <<uploadId, chunkStatuses, pcU, inflight, uploadError, maxRetriesThrown>>
  /\ UNCHANGED <<attemptVars, xhrs, serverHas, cancels, polls, timers>>
  /\ UNCHANGED <<serverVars, pageVars>>

NextClient ==
  \/ setUploadId
  \/ UploadAllCall
  \/ \E slow \in SUBSET Chunks, draws \in [Chunks -> DrawInputs] :
       \E uploadSpeed \in SpeedInputs, elapsed \in BOOLEAN :
         LoopRound(slow, draws, uploadSpeed, elapsed)
  \/ \E c \in Chunks, outcome \in {"success", "lost", "error"} :
       \E uploadSpeed \in SpeedInputs, elapsed \in BOOLEAN :
         ChunkSettle(c, outcome, uploadSpeed, elapsed)
  \/ \E uploadSpeed \in SpeedInputs : ProgressTick(uploadSpeed)

SpecClient == Init /\ [][NextClient]_vars

(***************************************************************************)
(* The same chunker with time passing: the per-chunk timeout, cancel(),    *)
(* the periodic status check and the requests that outlive their attempt.  *)
(* A timer fires when it is due: the clock does not pass the timeout of an *)
(* attempt in flight.                                                      *)
(***************************************************************************)
\* the retries counted so far over the chunks in a set
RECURSIVE Retried(_)
Retried(set) ==
  IF set = {} THEN 0
  ELSE LET c == CHOOSE i \in set : TRUE
       IN  chunkStatuses[c].retries + Retried(set \ {c})

\* the timed runs follow the upload up to MaxFailures counted retries
TimedSettle(c, outcome, uploadSpeed, elapsed) ==
  /\ outcome /= "success" => Retried(Chunks) < MaxFailures
  /\ ChunkSettle(c, outcome, uploadSpeed, elapsed)

\* the setTimeout of an attempt fires: controller.abort() settles the race
\* with "Upload timeout"; the XMLHttpRequest is left as it is
ChunkTimeout(c) ==
  /\ c \in inflight
  /\ Retried(Chunks) < MaxFailures
  /\ clock >= timeoutAt[c]
  /\ chunkStatuses' = Failed(chunkStatuses, {c})
  /\ lastRetryTime' = [lastRetryTime EXCEPT ![c] = clock]
  /\ chunkUploadStartTimes' = [chunkUploadStartTimes EXCEPT ![c] = 0]
  /\ timeoutAt' = [timeoutAt EXCEPT ![c] = 0]
  /\ inflight' = inflight \ {c}
  /\ pcU' = IF pcU = "await" /\ inflight' = {} THEN "loop" ELSE pcU
  /\ UNCHANGED <<uploadId, currentParallelism, uploadError, maxRetriesThrown>>
  /\ UNCHANGED <<xhrs, serverHas, cancels, polls, timers>>
  /\ UNCHANGED <<serverVars, pageVars>>

\* faulty variant: cancel() reaches no attempt
Aborted_None(attempts) == {}

\* cancel(): every controller in abortControllers is aborted; an attempt in
\* flight has its controller there from line 368 to the finally of line 496
Aborted(attempts) == attempts

\* cancel(): the intervals are stopped and the controllers aborted; each
\* aborted attempt settles its race with "Upload timeout" and ends as a
\* failure in the microtasks that follow.  cancel() runs as a task of its
\* own: the loop of uploadAll goes from one round to the next in microtasks,
\* so no call finds it between two rounds
cancel ==
  /\ cancels < MaxCancels
  /\ pcU /= "loop"
  /\ cancels' = cancels + 1
  /\ timers' = FALSE
  /\ LET ended == Aborted(inflight)
     IN  /\ chunkStatuses' = Failed(chunkStatuses, ended)
         /\ lastRetryTime' = [c \in Chunks |-> IF c \in ended THEN clock ELSE lastRetryTime[c]]
         /\ timeoutAt' = [c \in Chunks |-> IF c \in ended THEN 0 ELSE timeoutAt[c]]
         /\ inflight' = inflight \ ended
         /\ pcU' = IF pcU = "await" /\ inflight' = {} THEN "loop" ELSE pcU
  /\ chunkUploadStartTimes' = [c \in Chunks |-> 0]
  /\ UNCHANGED <<uploadId, currentParallelism, uploadError, maxRetriesThrown>>
  /\ UNCHANGED <<xhrs, serverHas, polls>>
  /\ UNCHANGED <<serverVars, pageVars>>

\* a request whose attempt has ended reaches the server, or is lost
OrphanEnds(x, arrived) ==
  /\ x \in xhrs
  /\ ~(x.index \in inflight /\ x = RequestOf(x.index))
  /\ xhrs' = xhrs \ {x}
  /\ serverHas' = IF arrived THEN serverHas \cup {x.index} ELSE serverHas
  /\ UNCHANGED <<uploadId, chunkStatuses, currentParallelism, pcU, inflight,
                 uploadError, maxRetriesThrown, attemptVars, cancels, polls, timers>>
  /\ UNCHANGED <<serverVars, pageVars>>

\* the answer of GET /upload/status: getSessionStatus spreads receivedChunks
\* as the number of received indices (upload-manager.ts 131)
StatusAnswer(ok, received) ==
  [ success |-> ok,
    receivedChunks |-> [type |-> "number", value |-> Cardinality(received)] ]

\* JavaScript truthiness of a number or an array
Truthy(v) == IF v.type = "number" THEN v.value /= 0 ELSE TRUE

\* new Set(v): the elements of an array; a number is not iterable (TypeError)
NewSet(v) ==
  IF v.type = "array" THEN [threw |-> FALSE, set |-> v.value]
  ELSE [threw |-> TRUE, set |-> {}]

\* checkServerStatus, lines 304-324: the statuses after the answer
Reconciled(statuses, result) ==
  IF ~(result.success /\ Truthy(result.receivedChunks)) THEN statuses
  ELSE LET serverReceivedChunks == NewSet(result.receivedChunks)
       IN  IF serverReceivedChunks.threw THEN statuses
           ELSE [c \in Chunks |->
                  IF /\ c \in serverReceivedChunks.set
                     /\ statuses[c].status \in {"pending", "failed"}
                    THEN [statuses[c] EXCEPT !.status = "completed"]
                    ELSE statuses[c]]

\* the 10 s status interval: the answer of the server is handled
checkServerStatus(ok) ==
  /\ timers
  /\ uploadId
  /\ pcU \in {"await", "sleep"}
  /\ Len(polls) < MaxPolls
  /\ LET result == StatusAnswer(ok, serverHas)
         statuses == Reconciled(chunkStatuses, result)
     IN  /\ polls' = Append(polls, result)
         /\ chunkStatuses' = statuses
         /\ chunkUploadStartTimes' = [c \in Chunks |->
              IF statuses[c] /= chunkStatuses[c] THEN 0 ELSE chunkUploadStartTimes[c]]
  /\ UNCHANGED <<uploadId, currentParallelism, pcU, inflight, uploadError, maxRetriesThrown>>
  /\ UNCHANGED <<lastRetryTime, timeoutAt, xhrs, serverHas, cancels, timers>>
  /\ UNCHANGED <<serverVars, pageVars>>

\* the steps of the clock: a second, half a second over one and a half
\* stuck thresholds, and the time left to the timeout of an attempt
TimeSteps ==
  {1000, (3 * STUCK_CHUNK_THRESHOLD) \div 2 + 500}
    \cup {timeoutAt[c] - clock : c \in {i \in inflight : timeoutAt[i] > clock}}

TimePasses(d) ==
  /\ cticks < MaxTimeSteps
  /\ \A c \in inflight : clock + d <= timeoutAt[c]
  /\ cticks' = cticks + 1
  /\ clock' = clock + d
  /\ UNCHANGED <<serverVars, chunkerVars, localStorage, calc, progress>>

\* the speeds of the timed runs: no byte sent yet, and a fast link
TimedSpeedInputs == {0, 5 * MB}

NextTimed ==
  \/ setUploadId
  \/ UploadAllCall
  \/ \E slow \in SUBSET Chunks, draws \in [Chunks -> DrawInputs] :
       \E uploadSpeed \in TimedSpeedInputs, elapsed \in BOOLEAN :
         LoopRound(slow, draws, uploadSpeed, elapsed)
  \/ \E c \in Chunks, outcome \in {"success", "lost", "error"} :
       \E uploadSpeed \in TimedSpeedInputs, elapsed \in BOOLEAN :
         TimedSettle(c, outcome, uploadSpeed, elapsed)
  \/ \E c \in Chunks : ChunkTimeout(c)
  \/ \E x \in xhrs, arrived \in BOOLEAN : OrphanEnds(x, arrived)
  \/ \E d \in TimeSteps : TimePasses(d)

SpecTimed == Init /\ [][NextTimed]_vars

\* the timed chunker with a caller that may cancel
NextCancel ==
  \/ NextTimed
  \/ cancel

SpecCancel == Init /\ [][NextCancel]_vars

\* the timed chunker with its status interval
NextPoll ==
  \/ NextTimed
  \/ \E ok \in BOOLEAN : checkServerStatus(ok)

SpecPoll == Init /\ [][NextPoll]_vars

(***************************************************************************)
(* UploadChunker.updateProgress and getProgress.  Byte counts are in KB,   *)
(* times in ms, speeds in KB per second, cut to whole numbers (no speed of *)
(* the runs is cut to 0).  The bytes counted at a call are an input: they  *)
(* follow the statuses and the progress events of the requests.            *)
(***************************************************************************)
PARALLELISM_ADJUST_INTERVAL == 5 * 1000
FileKB == NumClientChunks * 10 * KB
ByteInputs == {0, 5 * KB, 10 * KB, FileKB}
ProgressSteps == {500, 2000, 6000}

\* the quotient of a positive number by 0
Infinity == -1

IsPositive(v) == v = Infinity \/ v > 0

\* lines 226-249: the speed computed by a call at time t that counts
\* uploadedBytes, with p the fields after lines 199-203
UploadSpeedOf(p, t, uploadedBytes) ==
  LET timeElapsed == t - p.startTime
      timeSinceLastUpdate == t - p.lastProgressTime
      bytesSinceLastUpdate == uploadedBytes - p.lastProgressBytes
  IN  IF timeSinceLastUpdate > 0 /\ bytesSinceLastUpdate > 0 THEN
        LET currentSpeed == (bytesSinceLastUpdate * 1000) \div timeSinceLastUpdate
            previousSpeed ==
              IF p.lastProgressBytes > 0
                THEN IF p.lastProgressTime = p.startTime
                       THEN Infinity
                       ELSE (p.lastProgressBytes * 1000)
                              \div (p.lastProgressTime - p.startTime)
                ELSE currentSpeed
        IN  IF previousSpeed = Infinity THEN Infinity
            ELSE (previousSpeed * 7 + currentSpeed * 3) \div 10
      ELSE IF timeElapsed > 0 THEN (uploadedBytes * 1000) \div timeElapsed
      ELSE p.lastUploadSpeed

\* faulty variant: the estimate is computed again at every call
TimeRemainingIsSet_Never(p) == FALSE

\* this.initialTimeRemaining !== null
TimeRemainingIsSet(p) == p.initialTimeRemaining /= Null

\* line 272: remainingBytes / uploadSpeed, in ms
TimeRemainingOf(uploadedBytes, uploadSpeed) ==
  [ms |-> IF uploadSpeed = Infinity THEN 0
          ELSE ((FileKB - uploadedBytes) * 1000) \div uploadSpeed]

\* updateProgress with a progress callback set
UpdateProgress(uploadedBytes) ==
  /\ progress.reports < MaxReports
  /\ LET p == IF progress.startTime = 0
                THEN [progress EXCEPT !.startTime = clock, !.lastProgressTime = clock,
                                      !.lastProgressBytes = 0]
                ELSE progress
         timeElapsed == clock - p.startTime
         uploadSpeed == UploadSpeedOf(p, clock, uploadedBytes)
         bytesPerSecond == IF uploadSpeed = Infinity THEN 5 * MB ELSE uploadSpeed * KB
         elapsed == clock - p.lastParallelismAdjust > PARALLELISM_ADJUST_INTERVAL
         adjusted == elapsed
                       /\ calculateAdaptiveParallelism(bytesPerSecond) /= currentParallelism
         initialTimeRemaining ==
           IF /\ ~TimeRemainingIsSet(p)
              /\ IsPositive(uploadSpeed)
              /\ timeElapsed >= 2000
              /\ uploadedBytes > 0
             THEN TimeRemainingOf(uploadedBytes, uploadSpeed)
             ELSE p.initialTimeRemaining
     IN  /\ currentParallelism' = AdjustedParallelism(bytesPerSecond, adjusted)
         /\ progress' = [p EXCEPT
              !.lastUploadSpeed = uploadSpeed,
              !.lastParallelismAdjust = IF adjusted THEN clock ELSE @,
              !.initialTimeRemaining = initialTimeRemaining,
              !.lastProgressTime = clock,
              !.lastProgressBytes = uploadedBytes,
              !.reports = @ + 1,
              !.timeRemaining = initialTimeRemaining]
  /\ UNCHANGED <<uploadId, chunkStatuses, pcU, inflight, uploadError, maxRetriesThrown>>
  /\ UNCHANGED <<attemptVars, xhrs, serverHas, cancels, polls, timers>>
  /\ UNCHANGED <<serverVars, clock, cticks, localStorage, calc>>

GetProgress ==
  /\ progress.reports < MaxReports
  /\ progress' = [progress EXCEPT
       !.reports = @ + 1,
       !.timeRemaining = progress.initialTimeRemaining]
  /\ UNCHANGED <<serverVars, chunkerVars, clock, cticks, localStorage, calc>>

NextProgress ==
  \/ \E uploadedBytes \in ByteInputs : UpdateProgress(uploadedBytes)
  \/ GetProgress
  \/ \E d \in ProgressSteps : TimePasses(d)

SpecProgress == Init /\ [][NextProgress]_vars

(***************************************************************************)
(* handleUpload: /upload/init is asked with totalSize = file.size, and the *)
(* chunker is built with the chunkSize of the answer.                      *)
(***************************************************************************)
\* calculateOptimalChunkSize of upload-chunker.ts (the client's planner)
ChunkerOptimalChunkSize(totalSize) ==
  LET targetChunks == IF totalSize < 500 * MB THEN 100
                      ELSE IF totalSize \div KB < 5 * MB THEN 200 ELSE 300
      minChunkSize == IF totalSize < 500 * MB THEN MB
                      ELSE IF totalSize \div KB < 5 * MB THEN 2 * MB ELSE 5 * MB
      idealChunkSize == totalSize \div targetChunks
  IN  IF idealChunkSize < minChunkSize THEN minChunkSize
      ELSE IF idealChunkSize > 10 * MB THEN 10 * MB
      ELSE (idealChunkSize \div MB) * MB

\* faulty variant: the chunk size given is capped at the client's maximum
ChunkerChunkSize_Capped(chunkSize, fileSize) ==
  IF chunkSize /= 0 THEN Min(chunkSize, 10 * MB) ELSE ChunkerOptimalChunkSize(fileSize)

\* the constructor: chunkSize || calculateOptimalChunkSize(file.size)
ChunkerChunkSize(chunkSize, fileSize) ==
  IF chunkSize /= 0 THEN chunkSize ELSE ChunkerOptimalChunkSize(fileSize)

\* the session created by init request r: identifiers are handed out in
\* ascending order, one for each accepted request
SessionOfInit(r) ==
  Cardinality({q \in 1 .. r : reqs[q].kind = "init" /\ reqs[q].success})

\* new UploadChunker(file, BACKEND_URL, initResult.chunkSize) after the
\* accepted init request r
NewUploadChunker(r) ==
  /\ reqs[r].kind = "init"
  /\ reqs[r].success
  /\ LET fileSize == reqs[r].totalSize
         chunkSize == ChunkerChunkSize(reqs[r].answer.chunkSize, fileSize)
     IN  calc' = [ fn |-> "UploadChunker",
                   arg |-> <<SessionOfInit(r), fileSize, chunkSize>>,
                   done |-> TRUE,
                   out |-> calculateChunks(fileSize, chunkSize) ]
  /\ UNCHANGED <<serverVars, chunkerVars, clock, cticks, localStorage, progress>>

\* the init requests of the handshake, <<totalSize, chunkSize>>: files
\* below, at and above whole chunks with and without a chunkSize, and a
\* file of the planner's second tier
HandshakeInputs ==
  ({0, 1, 5000, 10 * MB, 10 * MB + 1, 20 * MB - 1, 25 * MB, 330 * MB}
     \X PlanChunkSizeInputs)
    \cup {<<600 * MB, 0>>}

NextHandshake ==
  \/ \E a \in HandshakeInputs :
       InitRequest(nreq + 1, Name_a_mkv, <<>>, a[1], a[2])
  \/ \E r \in ReqIds : NewUploadChunker(r)

SpecHandshake == Init /\ [][NextHandshake]_vars


(***************************************************************************)
(* Properties of the server.                                               *)
(***************************************************************************)
ChunkReqsOf(id) == {r \in ReqIds : reqs[r].kind = "chunk" /\ reqs[r].id = id}
CompleteReqsOf(id) == {r \in ReqIds : reqs[r].kind = "complete" /\ reqs[r].id = id}
Running(r) == reqs[r].pc \in {"open", "writing"}

\* every index of the session was submitted exactly once, its body whole, to
\* a staging file that did not exist before; every submission found the
\* session, was handed to the write queue and has returned
SubmittedOnceEach(id) ==
  /\ id \in DOMAIN sessions
  /\ CompleteReqsOf(id) = {}
  /\ \A i \in 0 .. sessions[id].totalChunks - 1 :
       Cardinality({r \in ChunkReqsOf(id) : reqs[r].chunkIndex = i}) = 1
  /\ \A r \in ChunkReqsOf(id) :
       /\ reqs[r].chunkIndex \in 0 .. sessions[id].totalChunks - 1
       /\ reqs[r].len = reqs[r].sent
       /\ reqs[r].ord > 0
       /\ reqs[r].pc = "done"

\* the staging file holds the chunks' bytes in index order and nothing else
IsConcatenation(f, s) ==
  /\ f.exists
  /\ f.size = s.totalSize
  /\ \A i \in 0 .. s.totalChunks - 1 : f.slots[i] = FullLen(s, i)

\* C1: once the N chunks of a fresh session have been submitted, in whatever
\* order, and all submissions have returned, the staging file is the
\* concatenation of the chunks in index order.
C1_AnyOrderYieldsConcatenation ==
  \A id \in DOMAIN sessions :
    SubmittedOnceEach(id) => IsConcatenation(files[id], sessions[id])

\* C2: when every index of a fresh session has been submitted exactly once,
\* in whatever order, every submission succeeded and the status reports
\* receivedChunks = totalChunks, missingChunks = [] and isComplete.
C2_AnyOrderCompletes ==
  \A id \in DOMAIN sessions :
    SubmittedOnceEach(id) =>
      /\ \A r \in ChunkReqsOf(id) : reqs[r].success
      /\ getSessionStatus(sessions, id).receivedChunks = sessions[id].totalChunks
      /\ getSessionStatus(sessions, id).missingChunks = <<>>
      /\ getSessionStatus(sessions, id).isComplete

\* C3: for every path at most one write function executes at a time, and a
\* write that has begun was enqueued after finished writes only.
C3_WritesSerialized ==
  \A id \in Ids :
    /\ Cardinality({r \in ChunkReqsOf(id) : Running(r)}) <= 1
    /\ \A r, q \in ChunkReqsOf(id) :
         (reqs[q].ord > 0 /\ reqs[q].ord < reqs[r].ord /\ reqs[r].ran)
           => reqs[q].pc = "done"

\* a write that had to wait behind another one is executing
C3_Witness ==
  \E r \in ReqIds : reqs[r].prev /= 0 /\ reqs[r].pc = "writing"

\* C4: a write waits only behind an unfinished write to its own path, so a
\* write for a path with no unfinished write begins at once, whatever the
\* queues of the other paths hold.
C4_PathsIndependent ==
  \A r \in ReqIds :
    reqs[r].pc = "queued" =>
      /\ reqs[reqs[r].prev].id = reqs[r].id
      /\ reqs[reqs[r].prev].pc /= "done"

\* a write executes for one path while another path has a write in progress
\* and a write queued behind it
C4_Witness ==
  \E a, b, c \in ReqIds :
    /\ reqs[a].id /= reqs[b].id /\ reqs[c].id = reqs[a].id
    /\ Running(a) /\ reqs[c].pc = "queued" /\ Running(b)

\* C5: a write enqueued for a path behind a write that failed still executes
\* its own write procedure.
C5_WriteBehindFailureStillRuns ==
  \A r, q \in ReqIds :
    ( /\ reqs[q].kind = "chunk" /\ reqs[r].kind = "chunk"
      /\ reqs[q].id = reqs[r].id
      /\ reqs[q].ran /\ reqs[q].promise = "rejected"
      /\ reqs[q].ord < reqs[r].ord
      /\ reqs[r].pc = "done" )
    => reqs[r].ran

\* C6: a chunk request naming an index already in receivedChunks is answered
\* with success at once, is never enqueued, and leaves receivedChunks and the
\* files as they were.
C6_ResubmitIsNoOp ==
  [][\A id \in DOMAIN sessions : \A i \in sessions[id].receivedChunks :
       ( /\ nreq' = nreq + 1
         /\ reqs'[nreq'].kind = "chunk"
         /\ reqs'[nreq'].id = id
         /\ reqs'[nreq'].chunkIndex = i )
       => /\ reqs'[nreq'].pc = "done"
          /\ reqs'[nreq'].success
          /\ files' = files
          /\ fileWriteQueues' = fileWriteQueues
          /\ id \in DOMAIN sessions'
          /\ sessions'[id].receivedChunks = sessions[id].receivedChunks]_vars

\* a resubmission of a received chunk has been answered
C6_Witness ==
  \E r \in ReqIds :
    /\ reqs[r].kind = "chunk" /\ reqs[r].pc = "done" /\ reqs[r].success
    /\ reqs[r].ord = 0
    /\ reqs[r].id \in DOMAIN sessions
    /\ reqs[r].chunkIndex \in sessions[reqs[r].id].receivedChunks

\* C7: the integrity check of a complete request fails the request and
\* leaves the store and the files alone when the staging file is missing or
\* its length is more than the tolerance away from totalSize; otherwise the
\* request goes on, and when it ends it ends with success and the session
\* deleted.
C7_FinalizeGate ==
  [][\A r \in ReqIds :
       /\ (reqs[r].pc = "validate" /\ reqs'[r].pc /= "validate") =>
            LET f == files[reqs[r].id]
            IN  IF ~f.exists \/ Abs(f.size - reqs[r].expected) > SIZE_TOLERANCE
                  THEN /\ reqs'[r].pc = "done" /\ ~reqs'[r].success
                       /\ sessions' = sessions
                       /\ files' = files /\ dest' = dest
                  ELSE reqs'[r].pc = "copy"
       /\ (reqs[r].pc \in {"copy", "delete"} /\ reqs'[r].pc = "done") =>
            /\ reqs'[r].success
            /\ reqs[r].id \notin DOMAIN sessions']_vars

\* a complete request on a session with all chunks received failed on a
\* staging file of the wrong length, and the session is still there
C7_Witness ==
  \E r \in ReqIds :
    /\ reqs[r].kind = "complete" /\ reqs[r].pc = "done" /\ ~reqs[r].success
    /\ reqs[r].statSize >= 0
    /\ Abs(reqs[r].statSize - reqs[r].expected) > SIZE_TOLERANCE
    /\ isComplete(sessions, reqs[r].id)

IsAscending(m) == \A i \in 1 .. Len(m) - 1 : m[i] < m[i + 1]
Elements(m) == {m[i] : i \in 1 .. Len(m)}

\* C8: a complete request on a session with an index missing is answered
\* success:false with exactly the absent indices in ascending order, moves no
\* file and leaves the session and its received chunks in the store.
C8_IncompleteFinalize ==
  [][\A id \in DOMAIN sessions :
       ( /\ (0 .. sessions[id].totalChunks - 1) \ sessions[id].receivedChunks /= {}
         /\ nreq' = nreq + 1
         /\ reqs'[nreq'].kind = "complete"
         /\ reqs'[nreq'].id = id )
       => /\ reqs'[nreq'].pc = "done"
          /\ ~reqs'[nreq'].success
          /\ IsAscending(reqs'[nreq'].missing)
          /\ Elements(reqs'[nreq'].missing) =
               (0 .. sessions[id].totalChunks - 1) \ sessions[id].receivedChunks
          /\ files' = files /\ dest' = dest
          /\ id \in DOMAIN sessions'
          /\ sessions'[id].receivedChunks = sessions[id].receivedChunks]_vars

\* complete was refused with 2 of 3 chunks received, naming the absent one
C8_Witness ==
  \E r \in ReqIds :
    /\ reqs[r].kind = "complete" /\ reqs[r].pc = "done" /\ ~reqs[r].success
    /\ reqs[r].id \in DOMAIN sessions
    /\ sessions[reqs[r].id].totalChunks = 3
    /\ Cardinality(sessions[reqs[r].id].receivedChunks) = 2
    /\ Len(reqs[r].missing) = 1

(***************************************************************************)
(* Properties of the client's uploadAll.                                   *)
(***************************************************************************)
\* C9: once a chunk's failed attempts have reached MAX_RETRIES and the error
\* naming it has been raised, uploadAll has rejected: it is not back in its
\* loop and has not resolved.
C9_RetryLimitRejects ==
  maxRetriesThrown => (pcU = "rejected" /\ uploadError /= "")

\* C10: uploadAll resolves only with every chunk completed, ends in a
\* rejection carrying an error otherwise, and called with no upload id it
\* rejects at once, before any chunk is touched.
C10_ResolveOnlyWhenAllCompleted ==
  /\ pcU = "resolved" =>
       /\ uploadId
       /\ \A c \in Chunks : chunkStatuses[c].status = "completed"
  /\ pcU = "rejected" => uploadError /= ""
  /\ (pcU /= "idle" /\ ~uploadId) =>
       /\ pcU = "rejected"
       /\ inflight = {}
       /\ \A c \in Chunks : chunkStatuses[c] = [status |-> "pending", retries |-> 0]

\* uploadAll has resolved, every chunk completed
C10_Witness ==
  /\ pcU = "resolved"
  /\ \A c \in Chunks : chunkStatuses[c].status = "completed"

(***************************************************************************)
(* Properties of retries and of the session store.                         *)
(***************************************************************************)
\* q is a failed upload of an index of the session and r, received after q,
\* the retry that succeeded: r's write began on an idle queue after q's write
\* had been enqueued, so q had returned by then; every other upload is
\* a first attempt for another index that succeeded
FailedThenRetried(id, q, r) ==
  /\ q \in ChunkReqsOf(id) /\ r \in ChunkReqsOf(id) /\ q < r
  /\ reqs[q].chunkIndex = reqs[r].chunkIndex
  /\ reqs[q].chunkIndex \in 0 .. sessions[id].totalChunks - 1
  /\ reqs[q].pc = "done" /\ ~reqs[q].success /\ reqs[q].ord > 0
  /\ reqs[r].pc = "done" /\ reqs[r].success
  /\ reqs[r].ord > reqs[q].ord /\ reqs[r].prev = 0
  /\ reqs[r].len = reqs[r].sent
  /\ CompleteReqsOf(id) = {}
  /\ \A p \in ChunkReqsOf(id) \ {q, r} :
       /\ reqs[p].pc = "done" /\ reqs[p].success
       /\ reqs[p].len = reqs[p].sent
       /\ reqs[p].chunkIndex \in 0 .. sessions[id].totalChunks - 1
       /\ reqs[p].chunkIndex /= reqs[q].chunkIndex
       /\ \A o \in ChunkReqsOf(id) \ {p} : reqs[o].chunkIndex /= reqs[p].chunkIndex

\* the state first-attempt successes leave: the uploaded indices are the
\* received ones and the staging file holds each of them whole
AsFirstAttemptSuccess(id) ==
  /\ sessions[id].receivedChunks = {reqs[p].chunkIndex : p \in ChunkReqsOf(id)}
  /\ files[id].exists
  /\ \A i \in sessions[id].receivedChunks : files[id].slots[i] = FullLen(sessions[id], i)

\* C11: after an upload of a chunk that failed once and succeeded on retry,
\* the session and its staging file are as if the chunk had succeeded on the
\* first attempt: the index is received and every received chunk's bytes are
\* in the staging file.
C11_RetryInvisible ==
  \A id \in DOMAIN sessions : \A q, r \in ReqIds :
    FailedThenRetried(id, q, r) => AsFirstAttemptSuccess(id)

\* C12: the received indices of every session in the store are indices of
\* the session, 0 .. totalChunks - 1.
C12_ReceivedWithinRange ==
  \A id \in DOMAIN sessions :
    sessions[id].receivedChunks \subseteq 0 .. sessions[id].totalChunks - 1

\* an upload naming the first index beyond the session's was written and
\* answered with success
C12_Witness ==
  \E r \in ReqIds :
    /\ reqs[r].kind = "chunk" /\ reqs[r].pc = "done" /\ reqs[r].success
    /\ reqs[r].ord > 0
    /\ reqs[r].id \in DOMAIN sessions
    /\ reqs[r].chunkIndex >= sessions[reqs[r].id].totalChunks

\* C13: while a session stays in the store no step removes an index from its
\* receivedChunks.
C13_ReceivedOnlyGrows ==
  [][\A id \in DOMAIN sessions \cap DOMAIN sessions' :
       sessions[id].receivedChunks \subseteq sessions'[id].receivedChunks]_vars

\* a session holds a received index after one of its writes failed and a
\* complete request was refused
C13_Witness ==
  \E id \in DOMAIN sessions :
    /\ sessions[id].receivedChunks /= {}
    /\ \E q \in ChunkReqsOf(id) :
         reqs[q].pc = "done" /\ ~reqs[q].success /\ reqs[q].ord > 0
    /\ \E c \in CompleteReqsOf(id) :
         reqs[c].pc = "done" /\ ~reqs[c].success

\* the session is missing or the index is not one of the session's
MarkRefused(id, chunkIndex) ==
  \/ id \notin DOMAIN sessions
  \/ chunkIndex \notin 0 .. sessions[id].totalChunks - 1

\* the accepted case of markChunkReceived: true is returned, the index joins
\* the set, lastActivity is the current time, a second call changes nothing
MarkAccepted(id, chunkIndex) ==
  LET after == markChunkReceived(sessions, id, chunkIndex, now)
  IN  /\ markChunkReceivedResult(sessions, id, chunkIndex)
      /\ after = [sessions EXCEPT
                    ![id].receivedChunks = sessions[id].receivedChunks \cup {chunkIndex},
                    ![id].lastActivity = now]
      /\ markChunkReceived(after, id, chunkIndex, now) = after

\* C14 (as stated): markChunkReceived returns false and changes nothing in
\* the store when the session is missing or the index is out of range;
\* otherwise it returns true, adds the index idempotently and refreshes
\* lastActivity.
C14_MarkChunkNoMutationOnRefusal ==
  \A id \in Ids : \A chunkIndex \in -1 .. MaxIdx :
    IF MarkRefused(id, chunkIndex)
      THEN /\ ~markChunkReceivedResult(sessions, id, chunkIndex)
           /\ markChunkReceived(sessions, id, chunkIndex, now) = sessions
      ELSE MarkAccepted(id, chunkIndex)

\* C14 (amended): markChunkReceived returns false and leaves receivedChunks
\* and every field but lastActivity unchanged when the session is missing or
\* the index is out of range, lastActivity of an existing session being
\* refreshed all the same; otherwise it returns true, adds the index
\* idempotently and refreshes lastActivity.
C14_MarkChunkTouchesOnRefusal ==
  \A id \in Ids : \A chunkIndex \in -1 .. MaxIdx :
    IF MarkRefused(id, chunkIndex)
      THEN /\ ~markChunkReceivedResult(sessions, id, chunkIndex)
           /\ markChunkReceived(sessions, id, chunkIndex, now) =
                IF id \in DOMAIN sessions
                  THEN [sessions EXCEPT ![id].lastActivity = now]
                  ELSE sessions
      ELSE MarkAccepted(id, chunkIndex)

\* the route has called markChunkReceived with an index beyond the session's
\* after the clock had advanced: the index is not received, lastActivity is
\* the current time
C14_Witness ==
  \E r \in ReqIds :
    /\ reqs[r].kind = "chunk" /\ reqs[r].pc = "done" /\ reqs[r].success
    /\ reqs[r].ord > 0
    /\ reqs[r].id \in DOMAIN sessions
    /\ reqs[r].chunkIndex >= sessions[reqs[r].id].totalChunks
    /\ reqs[r].chunkIndex \notin sessions[reqs[r].id].receivedChunks
    /\ now > 0
    /\ sessions[reqs[r].id].lastActivity = now

\* C15: isComplete is true of an id exactly when its session is in the store
\* and the received indices are all of 0 .. totalChunks - 1; it is false of
\* an id with no session.
C15_IsCompleteExact ==
  \A id \in Ids :
    isComplete(sessions, id) <=>
      /\ id \in DOMAIN sessions
      /\ sessions[id].receivedChunks = 0 .. sessions[id].totalChunks - 1

\* a session of three chunks is complete
C15_Witness ==
  \E id \in DOMAIN sessions :
    /\ sessions[id].totalChunks = 3
    /\ isComplete(sessions, id)

\* what getSessionStatus is to return for a session
StatusAsSpecified(id) ==
  LET s == sessions[id]
      n == Cardinality(s.receivedChunks)
      st == getSessionStatus(sessions, id)
  IN  /\ st.receivedChunks = n
      /\ IsAscending(st.missingChunks)
      /\ Elements(st.missingChunks) = (0 .. s.totalChunks - 1) \ s.receivedChunks
      /\ st.isComplete <=> (st.missingChunks = <<>>)
      /\ st.uploadedBytes =
           IF n * s.chunkSize <= s.totalSize THEN n * s.chunkSize ELSE s.totalSize

\* a step of the status route: no request arrives or moves, no session
\* appears or disappears
IsStatusStep ==
  /\ reqs' = reqs /\ nreq' = nreq
  /\ DOMAIN sessions' = DOMAIN sessions
  /\ sessions' /= sessions

\* C16: for every session getSessionStatus returns the number of received
\* chunks, the absent indices in ascending order, isComplete exactly when
\* none is absent and uploadedBytes = min(received * chunkSize, totalSize);
\* a status request changes no field of the session other than lastActivity.
C16_StatusProjection ==
  /\ [](\A id \in DOMAIN sessions : StatusAsSpecified(id))
  /\ [][IsStatusStep =>
          \E id \in DOMAIN sessions :
            sessions' = [sessions EXCEPT ![id].lastActivity = now]]_vars

\* a session whose received chunks amount to more than totalSize has been
\* accessed after the clock advanced
C16_Witness ==
  \E id \in DOMAIN sessions :
    /\ Cardinality(sessions[id].receivedChunks) * sessions[id].chunkSize
         > sessions[id].totalSize
    /\ getSessionStatus(sessions, id).uploadedBytes = sessions[id].totalSize
    /\ sessions[id].lastActivity > sessions[id].createdAt

\* the request received in this step is a well-formed chunk request or a
\* complete request naming id
ArrivesFor(id) ==
  /\ nreq' = nreq + 1
  /\ reqs'[nreq'].id = id
  /\ \/ reqs'[nreq'].kind = "complete"
     \/ reqs'[nreq'].kind = "chunk" /\ reqs'[nreq'].chunkIndex >= 0

\* C17: for an id with no session in the store, never created or deleted
\* since, the status route answers "Upload session not found" and its lookup
\* leaves the store as it is, and a chunk or complete request is answered
\* "Upload session not found" at once, the store, the files and the write
\* queues unchanged.
C17_SessionNotFound ==
  /\ [](\A id \in Ids \ DOMAIN sessions :
          /\ StatusResponse(sessions, id) =
               [success |-> FALSE, error |-> "Upload session not found"]
          /\ getSession(sessions, id, now) = sessions)
  /\ [][\A id \in Ids \ DOMAIN sessions :
          ArrivesFor(id) =>
            /\ reqs'[nreq'].pc = "done"
            /\ ~reqs'[nreq'].success
            /\ reqs'[nreq'].error = "Upload session not found"
            /\ sessions' = sessions
            /\ files' = files /\ dest' = dest
            /\ fileWriteQueues' = fileWriteQueues]_vars

\* a chunk request for a session deleted by a successful complete has been
\* answered "Upload session not found"
C17_Witness ==
  \E r \in ReqIds :
    /\ reqs[r].kind = "chunk" /\ reqs[r].pc = "done"
    /\ reqs[r].error = "Upload session not found"
    /\ reqs[r].id \in created \ DOMAIN sessions
    /\ \E c \in CompleteReqsOf(reqs[r].id) : reqs[c].pc = "done" /\ reqs[c].success

(***************************************************************************)
(* Properties of the init route.                                           *)
(***************************************************************************)
\* the name ends, letter case aside, with one of the allowed extensions
\* after at least one other character
EndsWithAllowed(name) ==
  \E e \in ALLOWED_EXTENSIONS :
    /\ Len(name) > Len(e)
    /\ \A i \in 1 .. Len(e) :
         LET c == name[Len(name) - Len(e) + i]
         IN  c = e[i] \/ (c = "M" /\ e[i] = "m") \/ (c = "K" /\ e[i] = "k")
                      \/ (c = "V" /\ e[i] = "v")

\* an init request with no or a non-positive totalSize, no fileName, or an
\* extension (of originalFileName if given, else of fileName) not allowed
InvalidInit(q) ==
  \/ q.totalSize <= 0
  \/ q.fileName = <<>>
  \/ ~EndsWithAllowed(IF q.originalFileName /= <<>> THEN q.originalFileName
                      ELSE q.fileName)

\* C18: an init request with a missing or non-positive totalSize, a missing
\* fileName or an extension outside the allow-list is answered success:false
\* with an error, and no session is created: the store is unchanged.
C18_InitValidation ==
  [][(/\ nreq' = nreq + 1
      /\ reqs'[nreq'].kind = "init"
      /\ InvalidInit(reqs'[nreq']))
     => /\ ~reqs'[nreq'].success
        /\ reqs'[nreq'].error /= ""
        /\ sessions' = sessions
        /\ created' = created]_vars

\* with a session in the store, an init request naming an allowed fileName
\* and a disallowed originalFileName has been refused
C18_Witness ==
  \E r \in ReqIds :
    /\ reqs[r].kind = "init" /\ ~reqs[r].success
    /\ reqs[r].totalSize > 0
    /\ reqs[r].fileName = Name_a_MKV
    /\ reqs[r].originalFileName = Name_b_exe
    /\ sessions /= <<>>

(***************************************************************************)
(* Properties of the eviction sweep and of lastActivity.                   *)
(***************************************************************************)
\* the three gates of eviction at time t, in milliseconds: last activity
\* more than 48 h ago, none within the last 5 min, created more than 1 h ago
AllGates(s, t) ==
  /\ t - s.lastActivity > 172800000
  /\ ~(t - s.lastActivity < 300000)
  /\ t - s.createdAt > 3600000

\* the times a sweep may run at: now, and from now on the instants around
\* the gates of each session
SweepTimes ==
  {now} \cup
  {t \in {sessions[id].lastActivity + d :
            id \in DOMAIN sessions, d \in {300000, 3600000, 172800000, 172800001}} :
     t >= now}

\* a step of the sweep that evicts: no request arrives or moves, sessions
\* leave the store
IsEvictingStep ==
  /\ reqs' = reqs
  /\ DOMAIN sessions' \subseteq DOMAIN sessions
  /\ DOMAIN sessions' /= DOMAIN sessions

\* C19: a sweep removes a session exactly when the three gates hold for it,
\* and leaves every other session as it was; so a session accessed within
\* the TTL or created within the last hour is not evicted.
C19_EvictionGates ==
  /\ [](\A t \in SweepTimes : \A id \in DOMAIN sessions :
          LET after == SweptStore(sessions, t)
          IN  /\ id \notin DOMAIN after <=> AllGates(sessions[id], t)
              /\ id \in DOMAIN after => after[id] = sessions[id])
  /\ [][IsEvictingStep =>
          \A id \in DOMAIN sessions :
            /\ id \notin DOMAIN sessions' <=> AllGates(sessions[id], now)
            /\ id \in DOMAIN sessions' => sessions'[id] = sessions[id]]_vars

\* a sweep has evicted one session and kept another, which was accessed or
\* created after the clock advanced
C19_Witness ==
  /\ now > 0
  /\ \E gone \in created \ DOMAIN sessions :
       \A c \in CompleteReqsOf(gone) : ~reqs[c].success
  /\ \E kept \in DOMAIN sessions : sessions[kept].lastActivity = now

\* a step that evicts session id
Evicts(id) ==
  /\ IsEvictingStep
  /\ id \in DOMAIN sessions
  /\ id \notin DOMAIN sessions'

\* C20: every accessor of the store sets lastActivity of an existing session
\* to the current time; lastActivity never decreases; and a session is
\* evicted only when its last access is more than the TTL ago, so one that
\* is accessed at intervals of at most the TTL stays.
C20_AccessKeepsAlive ==
  /\ [](\A id \in DOMAIN sessions :
          /\ sessions[id].lastActivity <= now
          /\ \A op \in StoreAccessors : \A chunkIndex \in -1 .. MaxIdx + 1 :
               LET after == StoreAfter(op, sessions, id, chunkIndex, now)
               IN  /\ DOMAIN after = DOMAIN sessions
                   /\ after[id].lastActivity = now
                   /\ id \in DOMAIN SweptStore(after, now))
  /\ [][/\ \A id \in DOMAIN sessions \cap DOMAIN sessions' :
             sessions'[id].lastActivity >= sessions[id].lastActivity
        /\ \A id \in Ids : Evicts(id) => now - sessions[id].lastActivity > SESSION_TTL]_vars

\* a session older than two TTLs that was kept by polling alone is in the
\* store, and a sweep has evicted the other
C20_Witness ==
  /\ \E kept \in DOMAIN sessions :
       /\ now - sessions[kept].createdAt > 2 * SESSION_TTL
       /\ sessions[kept].receivedChunks = {}
  /\ \E gone \in created : gone \notin DOMAIN sessions
  /\ nreq = 0

(***************************************************************************)
(* Properties of the client's chunk list.                                  *)
(***************************************************************************)
RECURSIVE SumSizes(_)
SumSizes(chunks) ==
  IF chunks = <<>> THEN 0 ELSE Head(chunks).size + SumSizes(Tail(chunks))

\* C21: the chunk list of a file of totalSize > 0 bytes cut at chunkSize > 0
\* partitions [0, totalSize): it starts at 0, each chunk starts where the
\* previous one ends, indices count from 0, every chunk but the last has
\* chunkSize bytes, the last ends at totalSize and the sizes add up.
C21_ChunksPartitionFile ==
  (calc.fn = "calculateChunks" /\ calc.done) =>
    LET totalSize == calc.arg[1]
        chunkSize == calc.arg[2]
        chunks == calc.out
        n == Len(chunks)
    IN  /\ n >= 1
        /\ chunks[1].start = 0
        /\ chunks[n].end = totalSize
        /\ \A i \in 1 .. n :
             /\ chunks[i].index = i - 1
             /\ chunks[i].size = chunks[i].end - chunks[i].start
             /\ chunks[i].size > 0
             /\ i > 1 => chunks[i].start = chunks[i - 1].end
             /\ i < n => chunks[i].size = chunkSize
        /\ chunks[n].size = totalSize - chunks[n].start
        /\ chunks[n].size <= chunkSize
        /\ SumSizes(chunks) = totalSize

\* a file whose last chunk is shorter than the others has been cut
C21_Witness ==
  /\ calc.fn = "calculateChunks"
  /\ calc.done
  /\ Len(calc.out) >= 3
  /\ calc.out[Len(calc.out)].size < calc.arg[2]

(***************************************************************************)
(* Properties of the server's chunk planner.                               *)
(***************************************************************************)
\* the minimum of the tier of a size of q KB, in KB: 10 MB below 500 MB,
\* 50 MB from there on
TierMinimumKB(q) == IF q < 512000 THEN 10240 ELSE 51200

\* C22: for every totalSize > 0 the planner's chunk size is at least the
\* minimum of the size's tier and at most 200 MB, hence not 0, and
\* ceil(totalSize / chunkSize) is at least 1.  For sizes that fit in 31
\* bits the value computed in kilobytes is the value computed in bytes.
C22_PlannerWithinTierBounds ==
  (calc.fn = "calculateOptimalChunkSize" /\ calc.done) =>
    LET q == calc.arg[1]
        r == calc.arg[2]
    IN  /\ TierMinimumKB(q) <= calc.out.chunkSize
        /\ calc.out.chunkSize <= 204800
        /\ calc.out.chunkSize > 0
        /\ calc.out.totalChunks >= 1
        /\ q < 2047 * KB =>
             /\ calculateOptimalChunkSize(q * KB + r) = calc.out.chunkSize * KB
             /\ CeilDiv(q * KB + r, calculateOptimalChunkSize(q * KB + r))
                  = calc.out.totalChunks

\* the planner has been applied to a size of the largest tier whose ideal
\* chunk lies between the minimum and the maximum
C22_Witness ==
  /\ calc.fn = "calculateOptimalChunkSize"
  /\ calc.done
  /\ calc.arg[1] >= 5 * KB * KB
  /\ calc.out.chunkSize > 51200
  /\ calc.out.chunkSize < 204800

\* the chunk size stated for a file of totalSize bytes: the tier minimum if
\* floor(totalSize / targetCount) is below it, the global maximum if above
\* it, otherwise that quotient rounded down to a whole megabyte
StatedChunkSize(totalSize) ==
  LET small == totalSize < 524288000
      targetCount == IF small THEN 20 ELSE IF totalSize \div 1024 < 5242880 THEN 50 ELSE 100
      minimum == IF small THEN 10485760 ELSE 52428800
      quotient == totalSize \div targetCount
  IN  IF quotient < minimum THEN minimum
      ELSE IF quotient > 209715200 THEN 209715200
      ELSE quotient - (quotient % 1048576)

\* the same in kilobytes, for the sizes beyond 31 bits
StatedChunkSizeKB(q) ==
  LET small == q < 512000
      targetCount == IF small THEN 20 ELSE IF q < 5242880 THEN 50 ELSE 100
      minimum == IF small THEN 10240 ELSE 51200
      quotient == q \div targetCount
  IN  IF quotient < minimum THEN minimum
      ELSE IF quotient > 204800 THEN 204800
      ELSE quotient - (quotient % 1024)

BackoffMonotone ==
  (calc.fn = "calculateExponentialBackoff" /\ calc.done) =>
    /\ calc.out.baseDelay <= 16000
    /\ calc.out.delay = calc.out.baseDelay + calc.out.jitter
    /\ calc.out.baseDelay < 16000 =>
         \A k \in RandomInputs :
           calc.out.delay <= calculateExponentialBackoff(calc.arg[1] + 1, k).delay

\* C24 as stated: the delay is non-decreasing in the retry count up to the
\* cap and the jitter is strictly positive for every random draw.
C24_BackoffJitterPositive ==
  /\ BackoffMonotone
  /\ (calc.fn = "calculateExponentialBackoff" /\ calc.done) => calc.out.jitter > 0

\* C24, amended: the delay is non-decreasing in the retry count up to the
\* cap and the jitter is at least 0 and below 30% of the base delay; it is
\* 0 when Math.random() returns 0.
C24_BackoffJitterNonNegative ==
  /\ BackoffMonotone
  /\ (calc.fn = "calculateExponentialBackoff" /\ calc.done) =>
       /\ calc.out.jitter >= 0
       /\ 10 * calc.out.jitter < 3 * calc.out.baseDelay
       /\ calc.out.jitter = 0 <=> calc.arg[2] = 0

\* the backoff of the fourth retry (8 s base, the last below the cap) has
\* been computed with the largest random draw
C24_Witness ==
  /\ calc.fn = "calculateExponentialBackoff"
  /\ calc.done
  /\ calc.arg = <<3, RandomDen - 1>>
  /\ calc.out.baseDelay = 8000
  /\ calc.out.jitter > 0

(***************************************************************************)
(* Properties of the client's stored session record.                       *)
(***************************************************************************)
\* the text is a record written by save: five members, the last the timestamp
IsRecordText(text) == Len(text) = 5 /\ text[5][1] = "timestamp"

\* the object a record text stands for
RecordOf(text) == [i \in 1 .. 5 |-> text[i][2]]

\* the times a load may run at: now, and the instants around the age limit
\* of each record
LoadTimes ==
  {clock} \cup
  {t \in {localStorage[k][5][2] + d :
            k \in {j \in DOMAIN localStorage : IsRecordText(localStorage[j])},
            d \in {86400000, 86400001}} : t >= clock}

\* load of a record of at most 24 h returns its fields and keeps it; load of
\* an older one returns null and removes it; load of no record returns null
LoadOfRecords ==
  \A id \in StateIds : \A t \in LoadTimes :
    LET key == storageKey(id)
        r == load(localStorage, id, t)
    IN  /\ key \notin DOMAIN localStorage =>
             r.value = Null /\ r.storage = localStorage
        /\ (key \in DOMAIN localStorage /\ IsRecordText(localStorage[key])) =>
             IF t - localStorage[key][5][2] <= 86400000
               THEN /\ r.value /= Null
                    /\ <<r.value.uploadId, r.value.totalSize, r.value.totalChunks,
                         r.value.chunkSize, r.value.timestamp>>
                         = RecordOf(localStorage[key])
                    /\ r.storage = localStorage
               ELSE /\ r.value = Null
                    /\ key \notin DOMAIN r.storage
        /\ \A other \in DOMAIN localStorage \ {key} :
             other \in DOMAIN r.storage /\ r.storage[other] = localStorage[other]

\* save(d) stores d's fields with the time of the save, and load returns
\* them at once; after clear, load returns null
SaveAndClear ==
  /\ (calc'.done = calc.done + 1 /\ calc'.fn = "save") =>
       LET id == calc'.arg[1]
           d == calc'.arg[2]
       IN  load(localStorage', id, clock).value = [d EXCEPT !.timestamp = clock]
  /\ (calc'.done = calc.done + 1 /\ calc'.fn = "clear") =>
       load(localStorage', calc'.arg[1], clock).value = Null
  /\ (calc'.done = calc.done + 1 /\ calc'.fn = "load") =>
       /\ calc'.out = load(localStorage, calc'.arg[1], clock).value
       /\ localStorage' = load(localStorage, calc'.arg[1], clock).storage

\* C26 as stated: a saved record is returned by load while it is at most
\* 24 h old; an older record and a record that cannot be parsed make load
\* return null and are removed; after clear, load returns null.
C26_RecordRoundTripAndExpiry ==
  /\ [](/\ LoadOfRecords
        /\ \A id \in StateIds :
             (/\ storageKey(id) \in DOMAIN localStorage
              /\ ~IsRecordText(localStorage[storageKey(id)])) =>
               /\ load(localStorage, id, clock).value = Null
               /\ storageKey(id) \notin DOMAIN load(localStorage, id, clock).storage)
  /\ [][SaveAndClear]_vars

\* C26, amended: as stated, but a record that is the empty string makes
\* load return null and stays in the storage; only a non-empty text that
\* cannot be parsed is removed.  The timestamp load returns is the time of
\* the save, not the one passed to save.
C26_EmptyRecordIsKept ==
  /\ [](/\ LoadOfRecords
        /\ \A id \in StateIds :
             (/\ storageKey(id) \in DOMAIN localStorage
              /\ ~IsRecordText(localStorage[storageKey(id)])) =>
               /\ load(localStorage, id, clock).value = Null
               /\ IF localStorage[storageKey(id)] = <<>>
                    THEN load(localStorage, id, clock).storage = localStorage
                    ELSE storageKey(id) \notin DOMAIN load(localStorage, id, clock).storage)
  /\ [][SaveAndClear]_vars

\* load has returned a record saved almost 24 h earlier with a timestamp
\* other than the time of the save
C26_Witness ==
  /\ calc.fn = "load"
  /\ calc.out /= Null
  /\ clock - calc.out.timestamp >= MAX_AGE - 1000
  /\ calc.out.timestamp > 0

(***************************************************************************)
(* C27: retries wait for their backoff                                     *)
(***************************************************************************)
\* the least backoff after a failure at retry count r (random draw 0)
LeastBackoff(r) == calculateExponentialBackoff(r, 0).delay

\* C27: a chunk that failed with retry count r at time t is not dispatched
\* again before t + backoff(r): an attempt that follows a failure starts at
\* least the backoff of the failed attempt's retry count after the failure.
C27_BackoffBeforeRetry ==
  \A c \in Chunks :
    (/\ chunkStatuses[c].status = "uploading"
     /\ chunkStatuses[c].retries > 0
     /\ lastRetryTime[c] /= 0) =>
      chunkUploadStartTimes[c] - lastRetryTime[c]
        >= LeastBackoff(chunkStatuses[c].retries - 1)

(***************************************************************************)
(* C30: one request per chunk index                                        *)
(***************************************************************************)
\* C30: a timed-out attempt has its HTTP request aborted, so that the
\* chunker never has more than one /upload/chunk request in flight for the
\* same chunk index, also after the timed-out attempt is retried.
C30_OneRequestPerIndex ==
  \A x \in xhrs, y \in xhrs : x.index = y.index => x = y

(***************************************************************************)
(* C29: stuck detection                                                    *)
(***************************************************************************)
\* the chunk has been uploading for longer than one and a half stuck
\* thresholds: detectStuckChunks resets it whatever its progress
LongStuck(c) ==
  /\ chunkStatuses[c].status = "uploading"
  /\ chunkUploadStartTimes[c] /= 0
  /\ 2 * (clock - chunkUploadStartTimes[c]) > 3 * STUCK_CHUNK_THRESHOLD

\* C29: while the upload loop is running, a chunk that stays in uploading
\* beyond the stuck threshold is aborted and reset to pending by stuck
\* detection, without waiting for the timeout of the attempt or a transport
\* error: no attempt whose timeout is still to come stays in uploading for
\* more than one and a half thresholds plus a second given to the detection.
C29_StuckChunkIsReset ==
  \A c \in Chunks :
    (/\ pcU \in {"loop", "await", "sleep"}
     /\ LongStuck(c)
     /\ clock < timeoutAt[c]) =>
      clock - chunkUploadStartTimes[c]
        <= (3 * STUCK_CHUNK_THRESHOLD) \div 2 + 1000

(***************************************************************************)
(* C28: reconciliation with the server                                     *)
(***************************************************************************)
\* this step handles the answer of a successful status poll
SuccessfulPoll ==
  /\ Len(polls') = Len(polls) + 1
  /\ polls'[Len(polls')].success

\* the chunks the server has recorded while they are pending or failed here
Unacknowledged ==
  {c \in serverHas : chunkStatuses[c].status \in {"pending", "failed"}}

\* C28: after a successful status poll during uploadAll, every chunk that
\* the server has recorded as received and that is pending or failed locally
\* is completed locally.
C28_PollReconciles ==
  [][SuccessfulPoll =>
       \A c \in Unacknowledged : chunkStatuses'[c].status = "completed"]_vars

(***************************************************************************)
(* C25: cancellation                                                       *)
(***************************************************************************)
\* this step is a call of cancel()
CancelStep == cancels' = cancels + 1

\* C25: after cancel(), every attempt that was in flight has settled with a
\* failure outcome (no attempt is left hanging: the chunk is no longer
\* uploading, is not completed, and its failure has been counted), and the
\* call itself leaves the server's session and the chunks it has received
\* as they were.
C25_CancelSettlesAttempts ==
  [][CancelStep =>
       /\ inflight' = {}
       /\ \A c \in inflight :
            /\ chunkStatuses'[c].status = "pending"
            /\ chunkStatuses'[c].retries = chunkStatuses[c].retries + 1
            /\ lastRetryTime'[c] = clock
       /\ \A c \in Chunks \ inflight : chunkStatuses'[c] = chunkStatuses[c]
       /\ serverHas' = serverHas
       /\ UNCHANGED serverVars]_vars

\* cancel() has been called while both chunks had an attempt in flight, and
\* both attempts have settled
C25_Witness ==
  /\ cancels = 1
  /\ inflight = {}
  /\ pcU = "loop"
  /\ \A c \in Chunks :
       /\ chunkStatuses[c].status = "pending"
       /\ chunkStatuses[c].retries > 0
       /\ lastRetryTime[c] = clock
       /\ RequestOf(c).attempt > 0
       /\ [index |-> c, attempt |-> chunkStatuses[c].retries - 1] \in xhrs

(***************************************************************************)
(* C31: the adaptive parallelism limit                                     *)
(***************************************************************************)
\* the limit lies between its bounds
LimitInRange ==
  /\ MIN_PARALLEL_CHUNKS <= currentParallelism
  /\ currentParallelism <= MAX_PARALLEL_CHUNKS

\* this step dispatches attempts
DispatchStep == inflight /= inflight' /\ inflight \subseteq inflight'

\* C31: at every moment of uploadAll the number of chunks in uploading is
\* at most currentParallelism, which lies between 1 and 5.
C31_UploadingWithinLimit ==
  /\ LimitInRange
  /\ getActiveUploads(chunkStatuses) <= currentParallelism

\* C31, amended: the limit lies between 1 and 5, and a round of the loop
\* dispatches no more attempts than the limit it read leaves free; the
\* limit may fall below the number of attempts in flight afterwards.
C31_DispatchWithinLimit ==
  /\ []LimitInRange
  /\ [][DispatchStep =>
          getActiveUploads(chunkStatuses') <= currentParallelism]_vars

\* both chunks are uploading at once under a limit that allows it
C31_Witness ==
  /\ inflight = Chunks
  /\ getActiveUploads(chunkStatuses) = NumClientChunks
  /\ currentParallelism >= NumClientChunks

(***************************************************************************)
(* C32: the status of a chunk                                              *)
(***************************************************************************)
\* the changes of status the state machine of a chunk allows
AllowedChanges ==
  { <<"pending", "uploading">>, <<"uploading", "completed">>,
    <<"uploading", "failed">>, <<"failed", "pending">>,
    <<"uploading", "pending">>,
    <<"pending", "completed">>, <<"failed", "completed">> }

\* the statuses chunk c passes through in this step
StatusPathOf(c) ==
  IF /\ chunkStatuses[c].status = "uploading"
     /\ chunkStatuses'[c].status = "pending"
     /\ chunkStatuses'[c].retries = chunkStatuses[c].retries + 1
    THEN FailurePath
    ELSE <<chunkStatuses[c].status, chunkStatuses'[c].status>>

\* C32: every change of a chunk's status is one of pending -> uploading,
\* uploading -> completed, uploading -> failed, failed -> pending,
\* uploading -> pending, pending or failed -> completed; a completed chunk
\* never changes and is never uploaded again.
C32_StatusChanges ==
  [][\A c \in Chunks :
       /\ chunkStatuses'[c].status /= chunkStatuses[c].status =>
            \A i \in 1 .. Len(StatusPathOf(c)) - 1 :
              <<StatusPathOf(c)[i], StatusPathOf(c)[i + 1]>> \in AllowedChanges
       /\ chunkStatuses[c].status = "completed" =>
            /\ chunkStatuses'[c] = chunkStatuses[c]
            /\ c \notin inflight'
            /\ \A x \in xhrs' \ xhrs : x.index /= c]_vars

\* one chunk is completed while the other has failed, been cancelled and
\* is uploading again
C32_Witness ==
  /\ cancels = 1
  /\ \E c \in Chunks, d \in Chunks :
       /\ chunkStatuses[c].status = "completed"
       /\ chunkStatuses[d].status = "uploading"
       /\ chunkStatuses[d].retries >= 2

(***************************************************************************)
(* C33: a chunk is recorded after its write                                *)
(***************************************************************************)
\* the size the server expects for a chunk index of a session
ExpectedSizeOf(s, chunkIndex) ==
  IF chunkIndex = s.totalChunks - 1
    THEN s.totalSize - chunkIndex * s.chunkSize
    ELSE s.chunkSize

\* index i of session id is recorded in this store
Recorded(store, id, i) == id \in DOMAIN store /\ i \in store[id].receivedChunks

\* the write of chunk request r finishes successfully in this step
WriteSucceeds(r) ==
  /\ reqs[r].pc = "writing"
  /\ reqs'[r].pc = "done"
  /\ reqs'[r].promise = "fulfilled"

\* C33: an index is added to receivedChunks only when a write of that chunk
\* finishes successfully, and a write whose byte count differs from the
\* expected size of its chunk by more than 1024 bytes yields a failed result
\* and adds nothing.
C33_RecordedAfterWrite ==
  /\ [][\A id \in Ids, i \in 0 .. MaxIdx :
          (Recorded(sessions', id, i) /\ ~Recorded(sessions, id, i)) =>
            \E r \in ChunkReqsOf(id) :
              /\ reqs[r].chunkIndex = i
              /\ WriteSucceeds(r)
              /\ Abs(reqs[r].len - ExpectedSizeOf(sessions[id], i)) <= SIZE_TOLERANCE]_vars
  /\ [][\A r \in ReqIds :
          (/\ reqs[r].pc = "writing"
           /\ reqs[r].id \in DOMAIN sessions
           /\ Abs(reqs[r].len - ExpectedSizeOf(sessions[reqs[r].id], reqs[r].chunkIndex))
                > SIZE_TOLERANCE
           /\ reqs'[r].pc = "done") =>
            /\ ~reqs'[r].success
            /\ reqs'[r].error = "Chunk size mismatch"
            /\ sessions' = sessions]_vars

\* a cut chunk was refused and left unrecorded, a whole one was recorded
C33_Witness ==
  \E r \in ReqIds, q \in ReqIds :
    /\ reqs[r].kind = "chunk" /\ reqs[q].kind = "chunk"
    /\ reqs[r].id = reqs[q].id
    /\ reqs[r].pc = "done"
    /\ reqs[r].error = "Chunk size mismatch"
    /\ ~Recorded(sessions, reqs[r].id, reqs[r].chunkIndex)
    /\ reqs[q].pc = "done"
    /\ reqs[q].promise = "fulfilled"
    /\ Recorded(sessions, reqs[q].id, reqs[q].chunkIndex)

(***************************************************************************)
(* C34: the time remaining is computed once                                *)
(***************************************************************************)
\* this step hands out a progress object
ReportStep == progress'.reports = progress.reports + 1

\* C34: the reported timeRemaining is null until it is first computed, and
\* once it has a value every later progress tick and getProgress call
\* reports that same value.
C34_TimeRemainingFixed ==
  /\ [](progress.initialTimeRemaining = Null => progress.timeRemaining = Null)
  /\ [][/\ progress.initialTimeRemaining /= Null =>
             progress'.initialTimeRemaining = progress.initialTimeRemaining
        /\ (ReportStep /\ progress.timeRemaining /= Null) =>
             progress'.timeRemaining = progress.timeRemaining
        /\ ReportStep => progress'.timeRemaining = progress'.initialTimeRemaining]_vars

\* the estimate was computed, and a later call that counted other bytes at
\* another time reported it again
C34_Witness ==
  /\ progress.timeRemaining /= Null
  /\ progress.reports >= 3
  /\ progress.lastProgressTime > progress.startTime + 2000
  /\ progress.lastUploadSpeed > 0
  /\ progress.timeRemaining /=
       TimeRemainingOf(progress.lastProgressBytes, progress.lastUploadSpeed)

(***************************************************************************)
(* C35: recorded chunks stay in the staging file                           *)
(***************************************************************************)
\* no chunk or complete request of the session is under way
Quiet(id) ==
  /\ \A r \in ChunkReqsOf(id) : reqs[r].pc = "done"
  /\ CompleteReqsOf(id) = {}

\* C35: once an index is in receivedChunks the bytes of that chunk stay at
\* their offset in the staging file until finalize; no later accepted write
\* removes them, a second write of chunk 0 included.  Stated for the moments
\* at which no request of the session is under way.
C35_ReceivedBytesStay ==
  \A id \in DOMAIN sessions :
    Quiet(id) =>
      \A i \in sessions[id].receivedChunks :
        /\ files[id].exists
        /\ files[id].slots[i] >= FullLen(sessions[id], i) - SIZE_TOLERANCE

(***************************************************************************)
(* C36: a successful answer means a recorded chunk                         *)
(***************************************************************************)
\* chunk request r is answered in this step
ChunkAnswered(r) ==
  /\ reqs'[r].kind = "chunk"
  /\ reqs'[r].pc = "done"
  /\ reqs[r].pc /= "done"

\* C36: /upload/chunk answers success: true only if the chunk index is in
\* the receivedChunks of its session when the answer is produced, also for
\* an index >= totalChunks and for a session deleted during the write.
C36_SuccessMeansRecorded ==
  [][\A r \in ReqIds :
       (ChunkAnswered(r) /\ reqs'[r].success) =>
         Recorded(sessions', reqs'[r].id, reqs'[r].chunkIndex)]_vars

(***************************************************************************)
(* C37: a successful finalize means a complete file at the destination     *)
(***************************************************************************)
\* complete request r is answered in this step
CompleteAnswered(r) ==
  /\ reqs'[r].kind = "complete"
  /\ reqs'[r].pc = "done"
  /\ reqs[r].pc /= "done"

\* no chunk request is between its arrival and its answer
NoWritePending == \A q \in ReqIds : reqs[q].kind = "chunk" => reqs[q].pc = "done"

\* C37: /upload/complete answers success: true only if the destination path
\* then holds the complete staged file, its length within the tolerance of
\* totalSize, also when two complete requests of one session overlap and
\* when the copy fails because the staging file is missing.  Stated for the
\* answers given while no chunk write is pending, where only the complete
\* requests themselves touch the files.
C37_SuccessMeansDelivered ==
  [][\A r \in ReqIds :
       (CompleteAnswered(r) /\ reqs'[r].success /\ NoWritePending) =>
         /\ dest'[reqs'[r].id].exists
         /\ Abs(dest'[reqs'[r].id].size - reqs'[r].expected) <= SIZE_TOLERANCE]_vars

(***************************************************************************)
(* C38: cancel() and the loop of uploadAll                                 *)
(***************************************************************************)
\* cancel() has been called during the present run of uploadAll: the run
\* starts the intervals, and only cancel() stops them before the run ends
CancelledWhileRunning ==
  /\ cancels >= 1
  /\ pcU \in {"loop", "sleep", "await"}
  /\ ~timers

\* C38: after cancel() is called while uploadAll is running, uploadAll
\* dispatches no further chunk upload request.
C38_NoDispatchAfterCancel ==
  [][CancelledWhileRunning => xhrs' \subseteq xhrs]_vars

(***************************************************************************)
(* C39: the chunk plans of the client and of the server                    *)
(***************************************************************************)
\* C39: a chunker built with the chunkSize returned by /upload/init has as
\* many chunks as the session has totalChunks, and each of its chunks has
\* the size the server expects for its index, so every chunk sent unaltered
\* passes the size check of writeChunk.
C39_PlansAgree ==
  (calc.fn = "UploadChunker" /\ calc.done) =>
    LET session == sessions[calc.arg[1]]
        chunks == calc.out
    IN  /\ session.totalSize = calc.arg[2]
        /\ Len(chunks) = session.totalChunks
        /\ \A n \in 1 .. Len(chunks) :
             /\ chunks[n].index = n - 1
             /\ chunks[n].size = ExpectedSizeOf(session, n - 1)
             /\ ~SizeMismatch(chunks[n].size, ExpectedSizeOf(session, n - 1))

\* a chunker has been built for a file of 10 MB + 1 after an init request
\* without chunkSize: two chunks, the last of one byte
C39_Witness ==
  /\ calc.fn = "UploadChunker" /\ calc.done
  /\ calc.arg[2] = 10 * MB + 1
  /\ calc.arg[3] = 10 * MB
  /\ sessions[calc.arg[1]].totalChunks = 2
  /\ Len(calc.out) = 2
  /\ calc.out[2].size = 1

====
